---- MODULE Spec2Model ----
(***************************************************************************)
(* Model of the beat-your-meet facilitation agent: the agenda state        *)
(* machine (agent/monitor.py), the asyncio agenda timers and command       *)
(* handlers (agent/main.py) and the speech gate (agent/speech_gate.py).    *)
(*                                                                         *)
(* Time is counted in whole minutes.  The clock starts at the epoch T0,    *)
(* which is larger than every window the code compares against, the way    *)
(* time.time() is larger than 120.  Timestamps the code initialises to 0.0 *)
(* keep the value 0; the two Optional timestamps use None.                 *)
(***************************************************************************)
EXTENDS Integers, Sequences, FiniteSets, TLC

VARIABLES
    items,                   \* MeetingState.items: [dur, state, actual_elapsed]
    style,                   \* MeetingState.style
    current_item_index,      \* MeetingState.current_item_index
    item_start_time,         \* MeetingState.item_start_time (None or a time)
    meeting_start_time,      \* MeetingState.meeting_start_time (None or a time)
    meeting_overtime,        \* MeetingState.meeting_overtime
    last_intervention_time,  \* MeetingState.last_intervention_time
    last_override_time,      \* MeetingState.last_override_time
    silence_requested_until, \* MeetingState.silence_requested_until
    now,                     \* time.time()
    warning_handle,          \* AgendaTimers._warning_handle
    overtime_handle,         \* AgendaTimers._overtime_handle
    tasks,                   \* coroutines in flight on the event loop
    pc,                      \* position of entrypoint()
    commands,                \* number of commands received so far
    driver,                  \* who calls MeetingState: "unit" (a direct caller) or "agent" (main.py)
                             \* or the part of the program a specification follows
    gate,                    \* inputs and result of the last speech_gate.evaluate
    mixer,                   \* MultiParticipantAudioInput: slots, output queue, mixer task
    notes,                   \* MeetingState.meeting_notes and what _on_overtime does with them
    call,                    \* history: the last query of the state, its arguments and result
    agent,                   \* BeatFacilitatorAgent: the time-query flag, the room and the timers
    loop,                    \* the timers call_later has put on the event loop and that are still to fire
    transcript_buffer,       \* MeetingState.transcript_buffer
    item_transcripts,        \* MeetingState.item_transcripts
    spoken,                  \* history: the items a time warning was spoken for
    override_cmd_time,       \* history: time of the last 'keep going' command, None once 120 s passed
    warned,                  \* history: the items check_time_state reported WARNING for
    advanced_before_start,   \* history: advance_to_next ran before start_meeting
    last                     \* history: the last operation, its pre-state and result

msVars == <<items, style, current_item_index, item_start_time, meeting_start_time,
            meeting_overtime, last_intervention_time, last_override_time,
            silence_requested_until>>
timerVars == <<warning_handle, overtime_handle, tasks>>
vars == <<items, style, current_item_index, item_start_time, meeting_start_time,
          meeting_overtime, last_intervention_time, last_override_time,
          silence_requested_until, now, warning_handle, overtime_handle, tasks,
          pc, driver, commands, gate, mixer, notes, call, agent, loop,
          transcript_buffer, item_transcripts, spoken, override_cmd_time,
          advanced_before_start, warned, last>>

----------------------------------------------------------------------------
\* Bounds of the model

MaxItems == 2
MaxTime == 6
MaxIndex == 3
MaxTasks == 1
MaxCommands == 1
MaxTextLen == 2
MaxCalls == 2
MaxGateTime == 1
MaxParticipants == 2
SamplesPerFrame == 1
MaxMixTicks == 2
MaxQueueTicks == 52
MaxChunks == 1
MaxFrames == 2
MaxEntries == 2
T0 == 10

\* Program constants

None == -1
SecondsPerMinute == 60
INTERVENTION_COOLDOWN == 30
OverrideGraceSeconds == 120
ExtendGraceSeconds == 120

UPCOMING == "upcoming"
ACTIVE == "active"
WARNING == "warning"
OVERTIME == "overtime"
EXTENDED == "extended"
COMPLETED == "completed"
ItemState == {UPCOMING, ACTIVE, WARNING, OVERTIME, EXTENDED, COMPLETED}

\* "gentle" and "moderate" differ only in the tangent rules; one of them stands for both here
Styles == {"moderate", "chatting"}
Durations == {-1, 0, 5}

AgendaItem(d) == [dur |-> d, state |-> UPCOMING, actual_elapsed |-> 0]

Agendas == UNION {[1..n -> Durations] : n \in 0..MaxItems}

Max(a, b) == IF a >= b THEN a ELSE b

----------------------------------------------------------------------------
\* MeetingState (agent/monitor.py)

HasCurrent == 0 <= current_item_index /\ current_item_index < Len(items)

current_item == items[current_item_index + 1]

CurState == IF HasCurrent THEN current_item.state ELSE "none"

elapsed_minutes == IF item_start_time = None THEN 0 ELSE now - item_start_time

SetState(its, i, s) == [its EXCEPT ![i + 1].state = s]

\* pct >= 1.0 and pct >= 0.8 of check_time_state, on exact minutes
\* variant: a non-positive allocation counts as ratio 0
PctAtLeast100Zero(elapsed, allocated) ==
    IF allocated > 0 THEN elapsed >= allocated ELSE FALSE

PctAtLeast100(elapsed, allocated) ==
    IF allocated > 0 THEN elapsed >= allocated ELSE TRUE

PctAtLeast80(elapsed, allocated) ==
    IF allocated > 0 THEN 5 * elapsed >= 4 * allocated ELSE TRUE

\* variant: the EXTENDED exclusion is forgotten
TimeStateNoExtended(st, elapsed, allocated) ==
    IF PctAtLeast100(elapsed, allocated) /\ st \notin {OVERTIME}
    THEN OVERTIME
    ELSE IF PctAtLeast80(elapsed, allocated) /\ st = ACTIVE
         THEN WARNING
         ELSE st

TimeState(st, elapsed, allocated) ==
    IF PctAtLeast100(elapsed, allocated) /\ st \notin {OVERTIME, EXTENDED}
    THEN OVERTIME
    ELSE IF PctAtLeast80(elapsed, allocated) /\ st = ACTIVE
         THEN WARNING
         ELSE st

is_in_override_grace ==
    IF last_override_time = 0 THEN FALSE
    ELSE (now - last_override_time) * SecondsPerMinute < OverrideGraceSeconds

can_intervene ==
    IF is_in_override_grace THEN FALSE
    ELSE (now - last_intervention_time) * SecondsPerMinute > INTERVENTION_COOLDOWN

\* variant: the item being left keeps its state
AdvItemsKeepState ==
    LET done == IF HasCurrent
                THEN [items EXCEPT ![current_item_index + 1].actual_elapsed = elapsed_minutes]
                ELSE items
        nxt == current_item_index + 1
    IN IF 0 <= nxt /\ nxt < Len(items) THEN SetState(done, nxt, ACTIVE) ELSE done

\* items, index, overtime and start time after advance_to_next
AdvItems ==
    LET done == IF HasCurrent
                THEN [items EXCEPT ![current_item_index + 1].state = COMPLETED,
                                   ![current_item_index + 1].actual_elapsed = elapsed_minutes]
                ELSE items
        nxt == current_item_index + 1
    IN IF 0 <= nxt /\ nxt < Len(items) THEN SetState(done, nxt, ACTIVE) ELSE done

AdvHasNext == 0 <= current_item_index + 1 /\ current_item_index + 1 < Len(items)

\* variant: the overrun is not clamped at zero
AdvOvertimeSigned ==
    IF HasCurrent
    THEN meeting_overtime + (elapsed_minutes - current_item.dur)
    ELSE meeting_overtime

AdvOvertime ==
    IF HasCurrent
    THEN meeting_overtime + Max(0, elapsed_minutes - current_item.dur)
    ELSE meeting_overtime

AdvStart == IF AdvHasNext THEN now ELSE item_start_time

Last(op, ret, spoke) ==
    [op |-> op, ret |-> ret, spoke |-> spoke, idx |-> current_item_index,
     st |-> CurState, el |-> elapsed_minutes, ot |-> meeting_overtime,
     dur |-> IF HasCurrent THEN current_item.dur ELSE 0]

----------------------------------------------------------------------------
\* The speech gate (agent/speech_gate.py).  A text is a sequence of tokens:
\* " " is whitespace, "!" is punctuation, every other token is one word.
\* Confidences are in hundredths; the context is built by the caller, so a
\* confidence outside 0..100 can reach the gate.

Tokens == {" ", "!", "a", "A", "b"}

Texts == UNION {[1..n -> Tokens] : n \in 0..MaxTextLen}

Transcripts == {<<>>, <<"a">>, <<"b", " ", "A">>}

Triggers == {"intro", "time_warning", "tangent_intervention", "transition",
             "wrap_up", "direct_question", "unknown"}

GateStyles == {"gentle", "moderate", "aggressive", "chatting"}

Confidences == {-5, 0, 59, 60, 69, 70, 79, 80, 81, 100, 105}

Overtimes == {4, 5}

Min(a, b) == IF a <= b THEN a ELSE b

RECURSIVE LStrip(_)
LStrip(t) == IF t # <<>> /\ Head(t) = " " THEN LStrip(Tail(t)) ELSE t

RECURSIVE RStrip(_)
RStrip(t) ==
    IF t # <<>> /\ t[Len(t)] = " " THEN RStrip(SubSeq(t, 1, Len(t) - 1)) ELSE t

\* str.strip
Strip(t) == RStrip(LStrip(t))

\* str.lower on one token
Lower(w) == IF w = "A" THEN "a" ELSE w

_tokenize_words(t) == {Lower(t[i]) : i \in 1..Len(t)} \ {" ", "!"}

\* variant: an overlap of exactly one half already counts as redundant
_is_redundantAtHalf(candidate, recent_transcript) ==
    IF recent_transcript = <<>> \/ candidate = <<>> THEN FALSE
    ELSE LET candidate_words == _tokenize_words(candidate)
             transcript_words == _tokenize_words(recent_transcript)
         IN IF candidate_words = {} THEN FALSE
            ELSE 2 * Cardinality(candidate_words \cap transcript_words)
                    >= Cardinality(candidate_words)

_is_redundant(candidate, recent_transcript) ==
    IF recent_transcript = <<>> \/ candidate = <<>> THEN FALSE
    ELSE LET candidate_words == _tokenize_words(candidate)
             transcript_words == _tokenize_words(recent_transcript)
         IN IF candidate_words = {} THEN FALSE
            ELSE 2 * Cardinality(candidate_words \cap transcript_words)
                    > Cardinality(candidate_words)

\* variant: the thresholds of gentle and aggressive are exchanged
_TANGENT_THRESHOLDSwapped(st) ==
    CASE st = "gentle" -> 60
      [] st = "moderate" -> 70
      [] st = "aggressive" -> 80
      [] OTHER -> 70

_TANGENT_THRESHOLD(st) ==
    CASE st = "gentle" -> 80
      [] st = "moderate" -> 70
      [] st = "aggressive" -> 60
      [] OTHER -> 70

\* variant: the confidence is passed on as computed
_emitUnclamped(action, text_for_tts, reason, confidence) ==
    [action |-> action,
     text_for_tts |-> IF action = "speak" THEN text_for_tts ELSE <<>>,
     reason |-> reason,
     confidence |-> confidence]

_emit(action, text_for_tts, reason, confidence) ==
    [action |-> action,
     text_for_tts |-> IF action = "speak" THEN text_for_tts ELSE <<>>,
     reason |-> reason,
     confidence |-> Max(0, Min(100, confidence))]

\* the per-trigger rules of evaluate, one per `if trigger == ...` block

IntroRule(candidate) == _emit("speak", candidate, "intro", 100)

WrapUpRule(candidate) == _emit("speak", candidate, "wrap_up", 100)

\* variant: the override grace is looked at before the meeting overtime
TransitionRuleGraceFirst(candidate, ctx) ==
    IF ctx.in_override_grace
    THEN _emit("silent", <<>>, "transition_deferred", 92)
    ELSE IF ctx.meeting_overtime >= 5
         THEN _emit("speak", candidate, "transition_forced", 98)
         ELSE _emit("speak", candidate, "transition_allowed", 95)

TransitionRule(candidate, ctx) ==
    IF ctx.meeting_overtime >= 5
    THEN _emit("speak", candidate, "transition_forced", 98)
    ELSE IF ctx.in_override_grace
         THEN _emit("silent", <<>>, "transition_deferred", 92)
         ELSE _emit("speak", candidate, "transition_allowed", 95)

\* variant: the time warning is not held back by the override grace
TimeWarningRuleNoGrace(candidate, ctx) == _emit("speak", candidate, "warning", 95)

TimeWarningRule(candidate, ctx) ==
    IF ctx.in_override_grace
    THEN _emit("silent", <<>>, "warning_grace", 95)
    ELSE _emit("speak", candidate, "warning", 95)

\* variant: a suppressed tangent reports the input confidence itself
TangentRuleSameConfidence(candidate, ctx) ==
    LET threshold == _TANGENT_THRESHOLD(ctx.style)
    IN IF ctx.in_override_grace
       THEN _emit("silent", <<>>, "tangent_grace", 95)
       ELSE IF ctx.tangent_confidence >= threshold
            THEN _emit("speak", candidate, "tangent_above", ctx.tangent_confidence)
            ELSE _emit("silent", <<>>, "tangent_below", ctx.tangent_confidence)

TangentRule(candidate, ctx) ==
    LET threshold == _TANGENT_THRESHOLD(ctx.style)
    IN IF ctx.in_override_grace
       THEN _emit("silent", <<>>, "tangent_grace", 95)
       ELSE IF ctx.tangent_confidence >= threshold
            THEN _emit("speak", candidate, "tangent_above", ctx.tangent_confidence)
            ELSE _emit("silent", <<>>, "tangent_below",
                       100 - Min(100, ctx.tangent_confidence))

\* variant: a direct question is answered with the confidence of a time warning
DirectQuestionRuleUnsure(candidate) == _emit("speak", candidate, "direct_question", 95)

DirectQuestionRule(candidate) == _emit("speak", candidate, "direct_question", 100)

\* variant: only the wrap-up is let through the silence window
SilenceBypassNarrow == {"wrap_up"}

\* variant: the always-speak triggers bypass the silence window too
SilenceBypassWide == {"transition", "wrap_up", "intro", "direct_question"}

\* the triggers that are let through an active silence window
SilenceBypass == {"transition", "wrap_up"}

\* evaluate(candidate_text, trigger, ctx) when time.time() returns t
evaluate(candidate_text, trigger, ctx, t) ==
    LET candidate == Strip(candidate_text)
        silence_active == ctx.silence_until > 0 /\ t < ctx.silence_until
    IN IF candidate = <<>>
       THEN _emit("silent", <<>>, "empty", 100)
       ELSE IF silence_active /\ trigger \notin SilenceBypass
       THEN _emit("silent", <<>>, "silence", 98)
       ELSE IF _is_redundant(candidate, ctx.recent_transcript)
       THEN _emit("silent", <<>>, "redundant", 90)
       ELSE IF trigger = "intro"
       THEN IntroRule(candidate)
       ELSE IF trigger = "wrap_up"
       THEN WrapUpRule(candidate)
       ELSE IF trigger = "transition"
       THEN TransitionRule(candidate, ctx)
       ELSE IF trigger = "time_warning"
       THEN TimeWarningRule(candidate, ctx)
       ELSE IF trigger = "tangent_intervention"
       THEN TangentRule(candidate, ctx)
       ELSE IF trigger = "direct_question"
       THEN DirectQuestionRule(candidate)
       ELSE _emit("silent", <<>>, "no_rule", 75)

Contexts ==
    [style : GateStyles, meeting_overtime : Overtimes, recent_transcript : Transcripts,
     in_override_grace : BOOLEAN, silence_until : {0, T0, T0 + 1},
     tangent_confidence : Confidences]

\* a timer that is due fires, and a spawned task starts, within the minute
NoReadyTask == \A k \in 1..Len(tasks) : tasks[k].pc # "ready"

NoDueHandle == \A t \in loop : t.at > now

----------------------------------------------------------------------------
\* The audio mixer (agent/multi_audio.py).  A frame is the sequence of its int16
\* samples; a slot of _participant_frames holds a frame or None.

QueueMaxSize == 50

Int16 == -32768..32767

Samples == {-32768, -1, 0, 1, 32767}

\* frames as the readers deliver them: of the configured size, shorter, and one
\* that is a sample longer
Frames ==
    UNION {[1..n -> Samples] : n \in 0..SamplesPerFrame}
        \cup {[i \in 1..(SamplesPerFrame + 1) |-> 1]}

NoFrame == [has |-> FALSE, data |-> <<>>]

Slot(identity, frame) == [identity |-> identity, frame |-> frame]

_silence_frame == [i \in 1..SamplesPerFrame |-> 0]

\* the frames _mix_frames collects, in the order of the dict
TakenFrames(slots) ==
    LET full == SelectSeq(slots, LAMBDA sl : sl.frame.has)
    IN [k \in 1..Len(full) |-> full[k].frame.data]

\* variant: a frame that was collected stays in its slot
ClearedSlotsKept(slots) == slots

\* the slots after _mix_frames has collected the frames
ClearedSlots(slots) == [k \in 1..Len(slots) |-> Slot(slots[k].identity, NoFrame)]

\* `mixed[i] += samples[i]` for the first min(len(samples), n) samples of one frame
AddFrame(mixed, samples) ==
    [i \in 1..SamplesPerFrame |->
        IF i <= Min(Len(samples), SamplesPerFrame) THEN mixed[i] + samples[i]
        ELSE mixed[i]]

\* the clamp loop that follows the summing loop
ClampInt16(x) == IF x > 32767 THEN 32767 ELSE IF x < -32768 THEN -32768 ELSE x

\* an array of type "h" holds int16 only: storing any other value raises OverflowError
StoresInt16(mixed) == \A i \in 1..SamplesPerFrame : mixed[i] \in Int16

\* the summing loop of _mix_frames over the collected frames
RECURSIVE SumFrames(_, _)
SumFrames(mixed, frames) ==
    IF frames = <<>> THEN [raised |-> "none", data |-> mixed]
    ELSE LET m == AddFrame(mixed, Head(frames))
         IN IF StoresInt16(m) THEN SumFrames(m, Tail(frames))
            ELSE [raised |-> "OverflowError", data |-> <<>>]

\* variant: a single collected frame goes through the summing path as well
_mix_framesAlwaysSummed(frames) ==
    IF frames = <<>> THEN [raised |-> "none", data |-> _silence_frame]
    ELSE LET r == SumFrames([i \in 1..SamplesPerFrame |-> 0], frames)
         IN IF r.raised # "none" THEN r
            ELSE [raised |-> "none",
                  data |-> [i \in 1..SamplesPerFrame |-> ClampInt16(r.data[i])]]

\* _mix_frames on the collected frames: the frame returned or the exception raised
_mix_frames(frames) ==
    IF frames = <<>> THEN [raised |-> "none", data |-> _silence_frame]
    ELSE IF Len(frames) = 1 THEN [raised |-> "none", data |-> frames[1]]
    ELSE LET r == SumFrames([i \in 1..SamplesPerFrame |-> 0], frames)
         IN IF r.raised # "none" THEN r
            ELSE [raised |-> "none",
                  data |-> [i \in 1..SamplesPerFrame |-> ClampInt16(r.data[i])]]

\* variant: a full queue keeps what it holds and the new frame is lost
PutDropNewest(queue, frame) ==
    IF Len(queue) >= QueueMaxSize THEN queue ELSE Append(queue, frame)

\* put_nowait with the oldest frame dropped when the queue is full
PutDropOldest(queue, frame) ==
    IF Len(queue) >= QueueMaxSize THEN Append(Tail(queue), frame)
    ELSE Append(queue, frame)

\* nothing delivered to the consumer yet
NoDelivery == [seq |-> 0, running |-> TRUE]

\* the mixer after __init__.  readers holds the state of the _forward_participant
\* task of each slot and consumer the position of the caller of __anext__.  History:
\* ticks counts the rounds of the loop, taken and out are the frames collected and
\* the outcome of the last round, seqs is the round that emitted each queued frame,
\* got is the last frame handed to the consumer with the value of _running then,
\* faulted is the number of rounds done when a reader last failed or ended, sent
\* counts the frames the reader of each slot has delivered and seen is what sent
\* was at the last round.  stream_keys and task_keys are the identities _streams
\* and _tasks have an entry for (slots is _participant_frames).  History: detached
\* holds the identities removed so far, detached_at the rounds done at the last removal.
NoMixer ==
    [slots |-> <<>>, queue |-> <<>>, running |-> FALSE, task |-> "none", ticks |-> 0,
     taken |-> <<>>, out |-> [raised |-> "none", data |-> <<>>],
     readers |-> <<>>, consumer |-> "idle", seqs |-> <<>>, got |-> NoDelivery,
     faulted |-> None, sent |-> <<>>, seen |-> <<>>,
     stream_keys |-> {}, task_keys |-> {}, detached |-> {}, detached_at |-> None]

\* MeetingState.meeting_notes after construction.  History: published counts the
\* agenda states _on_overtime has sent, raised is the exception that ended an
\* _on_overtime task.
NoNotes == [meeting_notes |-> <<>>, published |-> 0, raised |-> "none"]

NoCall == [op |-> "none"]

\* a BeatFacilitatorAgent built without room and timers, the time-query flag off
NoAgent == [deterministic_time_queries_enabled |-> FALSE, room |-> FALSE, timers |-> FALSE]

NoGate ==
    [text |-> <<>>, trigger |-> "none",
     ctx |-> [style |-> "moderate", meeting_overtime |-> 0, recent_transcript |-> <<>>,
              in_override_grace |-> FALSE, silence_until |-> 0, tangent_confidence |-> 0],
     result |-> [action |-> "none", text_for_tts |-> <<>>, reason |-> "none",
                 confidence |-> 0],
     calls |-> 0]

Init ==
    /\ \E a \in Agendas : items = [i \in 1..Len(a) |-> AgendaItem(a[i])]
    /\ style \in Styles
    /\ current_item_index = 0
    /\ item_start_time = None
    /\ meeting_start_time = None
    /\ meeting_overtime = 0
    /\ last_intervention_time = 0
    /\ last_override_time = 0
    /\ silence_requested_until = 0
    /\ now = T0
    /\ warning_handle = [status |-> "none", at |-> 0, item |-> 0]
    /\ overtime_handle = [status |-> "none", at |-> 0, item |-> 0]
    /\ tasks = <<>>
    /\ pc = "start"
    /\ driver \in {"unit", "agent"}
    /\ commands = 0
    /\ gate = NoGate
    /\ mixer = NoMixer
    /\ notes = NoNotes
    /\ call = NoCall
    /\ agent = NoAgent
    /\ loop = {}
    /\ transcript_buffer = <<>>
    /\ item_transcripts = <<>>
    /\ spoken = {}
    /\ override_cmd_time = None
    /\ advanced_before_start = FALSE
    /\ warned = {}
    /\ last = [op |-> "init", ret |-> "None", spoke |-> "none", idx |-> 0,
               st |-> "none", el |-> 0, ot |-> 0, dur |-> 0]

RECURSIVE SumDurations(_)
SumDurations(its) == IF its = <<>> THEN 0 ELSE Head(its).dur + SumDurations(Tail(its))

\* MeetingState.total_scheduled_minutes
total_scheduled_minutes == SumDurations(items)

\* the time up to which the clock is followed; a meeting that is followed to its
\* end is followed for MaxTime minutes past the scheduled end
Horizon ==
    IF driver \in {"run", "warn"} THEN T0 + total_scheduled_minutes + MaxTime
    ELSE T0 + MaxTime

\* The clock advances by one minute.  Start-up takes less than a minute: the
\* clock stands still until start_meeting has run and entrypoint() is through.
\* Where a meeting is followed to its end, session.say takes less than a minute too.
Tick ==
    /\ meeting_start_time # None
    /\ driver \in {"agent", "notes", "run", "warn"} => pc = "done"
    /\ driver = "run" => tasks = <<>>
    /\ now < Horizon
    /\ NoDueHandle
    /\ NoReadyTask
    /\ now' = now + 1
    /\ override_cmd_time' =
          IF override_cmd_time # None
             /\ (now + 1 - override_cmd_time) * SecondsPerMinute < ExtendGraceSeconds
          THEN override_cmd_time ELSE None
    /\ last' = Last("tick", "None", "none")
    /\ UNCHANGED <<msVars, timerVars, pc, driver, commands, gate, mixer, notes, call, agent, loop, transcript_buffer, item_transcripts, spoken, advanced_before_start, warned>>

\* MeetingState.start_meeting, called once by entrypoint()
StartMeeting ==
    /\ pc = "start"
    /\ meeting_start_time' = now
    /\ item_start_time' = now
    /\ items' = IF Len(items) > 0 THEN SetState(items, 0, ACTIVE) ELSE items
    /\ pc' = "timers"
    /\ last' = Last("start_meeting", "None", "none")
    /\ UNCHANGED <<style, current_item_index, meeting_overtime, last_intervention_time,
                   last_override_time, silence_requested_until, now, timerVars, driver, commands, gate, mixer, notes, call, agent, loop, transcript_buffer, item_transcripts, spoken,
                   override_cmd_time, advanced_before_start, warned>>

\* variant: the state is returned whether or not it changed
CheckTimeStateLevel ==
    /\ driver = "unit"
    /\ IF ~HasCurrent \/ CurState = COMPLETED
       THEN /\ items' = items
            /\ warned' = warned
            /\ last' = Last("check_time_state", "None", "none")
       ELSE LET new == TimeState(current_item.state, elapsed_minutes, current_item.dur)
            IN /\ items' = SetState(items, current_item_index, new)
               /\ warned' = IF new = WARNING /\ new # current_item.state
                             THEN warned \cup {current_item_index} ELSE warned
               /\ last' = Last("check_time_state",
                               new, "none")
    /\ UNCHANGED <<style, current_item_index, item_start_time, meeting_start_time,
                   meeting_overtime, last_intervention_time, last_override_time,
                   silence_requested_until, now, timerVars, pc, driver, commands, gate, mixer, notes, call, agent, loop, transcript_buffer, item_transcripts, spoken,
                   override_cmd_time, advanced_before_start>>

\* MeetingState.check_time_state
CheckTimeState ==
    /\ driver = "unit"
    /\ IF ~HasCurrent \/ CurState = COMPLETED
       THEN /\ items' = items
            /\ warned' = warned
            /\ last' = Last("check_time_state", "None", "none")
       ELSE LET new == TimeState(current_item.state, elapsed_minutes, current_item.dur)
            IN /\ items' = SetState(items, current_item_index, new)
               /\ warned' = IF new = WARNING /\ new # current_item.state
                             THEN warned \cup {current_item_index} ELSE warned
               /\ last' = Last("check_time_state",
                               IF new # current_item.state THEN new ELSE "None", "none")
    /\ UNCHANGED <<style, current_item_index, item_start_time, meeting_start_time,
                   meeting_overtime, last_intervention_time, last_override_time,
                   silence_requested_until, now, timerVars, pc, driver, commands, gate, mixer, notes, call, agent, loop, transcript_buffer, item_transcripts, spoken,
                   override_cmd_time, advanced_before_start>>

\* MeetingState.advance_to_next
AdvanceToNext ==
    /\ driver \in {"unit", "status", "transcript"}
    /\ current_item_index < MaxIndex
    /\ items' = AdvItems
    /\ meeting_overtime' = AdvOvertime
    /\ current_item_index' = current_item_index + 1
    /\ item_start_time' = AdvStart
    /\ advanced_before_start' = (advanced_before_start \/ meeting_start_time = None)
    /\ last' = Last("advance_to_next", IF AdvHasNext THEN "next" ELSE "None", "none")
    /\ UNCHANGED <<style, meeting_start_time, last_intervention_time, last_override_time,
                   silence_requested_until, now, timerVars, pc, driver, commands, gate, mixer, notes, call, agent, loop, transcript_buffer, item_transcripts, spoken, override_cmd_time, warned>>

\* variant: the override restarts the item clock
HandleOverrideRestart ==
    /\ driver = "unit"
    /\ items' = IF HasCurrent THEN SetState(items, current_item_index, EXTENDED) ELSE items
    /\ last_override_time' = now
    /\ item_start_time' = now
    /\ last' = Last("handle_override", "None", "none")
    /\ UNCHANGED <<style, current_item_index, meeting_start_time,
                   meeting_overtime, last_intervention_time, silence_requested_until,
                   now, timerVars, pc, driver, commands, gate, mixer, notes, call, agent, loop, transcript_buffer, item_transcripts, spoken, override_cmd_time, advanced_before_start, warned>>

\* MeetingState.handle_override
HandleOverride ==
    /\ driver = "unit"
    /\ items' = IF HasCurrent THEN SetState(items, current_item_index, EXTENDED) ELSE items
    /\ last_override_time' = now
    /\ last' = Last("handle_override", "None", "none")
    /\ UNCHANGED <<style, current_item_index, item_start_time, meeting_start_time,
                   meeting_overtime, last_intervention_time, silence_requested_until,
                   now, timerVars, pc, driver, commands, gate, mixer, notes, call, agent, loop, transcript_buffer, item_transcripts, spoken, override_cmd_time, advanced_before_start, warned>>

----------------------------------------------------------------------------
\* AgendaTimers and the command handlers (agent/main.py)

NoHandle == [status |-> "none", at |-> 0, item |-> 0]

\* warning handle after start_item_timers, given the style then in force
StartWarning(its, idx, s) ==
    IF ~(0 <= idx /\ idx < Len(its)) \/ s = "chatting" THEN NoHandle
    ELSE IF its[idx + 1].dur * 4 > 0
         THEN [status |-> "pending", at |-> now + (its[idx + 1].dur * 4) \div 5,
               item |-> idx]
         ELSE NoHandle

\* variant: start_item_timers creates no overtime handle
StartOvertimeNever(its, idx, s) == NoHandle

\* overtime handle after start_item_timers, given the style then in force
StartOvertime(its, idx, s) ==
    IF ~(0 <= idx /\ idx < Len(its)) \/ s = "chatting" THEN NoHandle
    ELSE IF its[idx + 1].dur > 0
         THEN [status |-> "pending", at |-> now + its[idx + 1].dur, item |-> idx]
         ELSE NoHandle

\* overtime handle after AgendaTimers.extend(grace_seconds=120)
ExtendOvertime ==
    [status |-> "pending", at |-> now + ExtendGraceSeconds \div SecondsPerMinute,
     item |-> current_item_index]

\* the timer call_later puts on the loop for the handle h
Timer(kind, h) == [kind |-> kind, at |-> h.at, item |-> h.item]

\* TimerHandle.cancel(): a handle still to fire leaves the loop, a handle that has
\* fired or was cancelled is left as it is
Unschedule(lp, kind, h) == IF h.status = "pending" THEN lp \ {Timer(kind, h)} ELSE lp

\* loop.call_later for the handle h, if start_item_timers has created one
Schedule(lp, kind, h) == IF h.status = "pending" THEN lp \cup {Timer(kind, h)} ELSE lp

\* the loop after AgendaTimers.cancel()
Cancelled ==
    Unschedule(Unschedule(loop, "warning", warning_handle), "overtime", overtime_handle)

\* the loop after start_item_timers: cancel(), then the handles w and o are created
Restarted(w, o) == Schedule(Schedule(Cancelled, "warning", w), "overtime", o)

\* variant: the overtime handle is replaced without being cancelled
ExtendedNoCancel(h) == Schedule(loop, "overtime", h)

\* the loop after AgendaTimers.extend: the overtime handle is cancelled, h is created
Extended(h) == Schedule(Unschedule(loop, "overtime", overtime_handle), "overtime", h)

\* MeetingState.is_silenced is read by llm_node; monitor.py does not define it
is_silenced == silence_requested_until > now

Task(kind, at, item) ==
    [kind |-> kind, pc |-> at, item |-> item, hasNext |-> FALSE, prev |-> None]

Drop(seq, k) == [i \in 1..(Len(seq) - 1) |-> IF i < k THEN seq[i] ELSE seq[i + 1]]

\* entrypoint(): timers for the first item after start_meeting
EntryTimers ==
    /\ driver \in {"agent", "notes", "run", "warn"}
    /\ pc = "timers"
    /\ pc' = "intro"
    /\ IF style # "chatting"
       THEN /\ warning_handle' = StartWarning(items, current_item_index, style)
            /\ overtime_handle' = StartOvertime(items, current_item_index, style)
            /\ loop' = Restarted(warning_handle', overtime_handle')
       ELSE UNCHANGED <<warning_handle, overtime_handle, loop>>
    /\ last' = Last("entry_timers", "None", "none")
    /\ UNCHANGED <<msVars, now, tasks, driver, commands, gate, mixer, notes, call, agent, transcript_buffer, item_transcripts, spoken, override_cmd_time, advanced_before_start, warned>>

\* entrypoint(): the introduction is spoken and recorded
EntryIntro ==
    /\ pc = "intro"
    /\ pc' = "done"
    /\ last_intervention_time' = now
    /\ last' = Last("entry_intro", "None", "intro")
    /\ UNCHANGED <<items, style, current_item_index, item_start_time, meeting_start_time,
                   meeting_overtime, last_override_time, silence_requested_until, now,
                   timerVars, driver, commands, gate, mixer, notes, call, agent, loop, transcript_buffer, item_transcripts, spoken, override_cmd_time, advanced_before_start, warned>>

\* the loop runs a warning timer that is due: the lambda spawns _on_warning
FireWarning ==
    /\ Len(tasks) < MaxTasks
    /\ \E t \in loop :
          /\ t.kind = "warning" /\ t.at <= now
          /\ loop' = loop \ {t}
          /\ warning_handle' =
                IF warning_handle.status = "pending" /\ Timer("warning", warning_handle) = t
                THEN [warning_handle EXCEPT !.status = "fired"] ELSE warning_handle
          /\ tasks' = Append(tasks, Task("warning", "ready", t.item))
    /\ last' = Last("fire_warning", "None", "none")
    /\ UNCHANGED <<msVars, now, overtime_handle, pc, driver, commands, gate, mixer, notes, call, agent, transcript_buffer, item_transcripts, spoken, override_cmd_time,
                   advanced_before_start, warned>>

\* the loop runs an overtime timer that is due: the lambda spawns _on_overtime
FireOvertime ==
    /\ Len(tasks) < MaxTasks
    /\ \E t \in loop :
          /\ t.kind = "overtime" /\ t.at <= now
          /\ loop' = loop \ {t}
          /\ overtime_handle' =
                IF overtime_handle.status = "pending"
                   /\ Timer("overtime", overtime_handle) = t
                THEN [overtime_handle EXCEPT !.status = "fired"] ELSE overtime_handle
          /\ tasks' = Append(tasks, Task("overtime", "ready", t.item))
    /\ last' = Last("fire_overtime", "None", "none")
    /\ UNCHANGED <<msVars, now, warning_handle, pc, driver, commands, gate, mixer, notes, call, agent, transcript_buffer, item_transcripts, spoken, override_cmd_time,
                   advanced_before_start, warned>>

\* AgendaTimers._on_warning up to its first await
OnWarning(k) ==
    /\ tasks[k].kind = "warning" /\ tasks[k].pc = "ready"
    /\ IF ~HasCurrent \/ CurState = COMPLETED
       THEN /\ items' = items
            /\ tasks' = Drop(tasks, k)
            /\ spoken' = spoken
            /\ last' = Last("on_warning", "return", "none")
       ELSE /\ items' = SetState(items, current_item_index, WARNING)
            /\ IF can_intervene
               THEN /\ tasks' = [tasks EXCEPT ![k].pc = "say"]
                    /\ spoken' = spoken \cup {current_item_index}
                    /\ last' = Last("on_warning", "None", "time_warning")
               ELSE /\ tasks' = Drop(tasks, k)
                    /\ spoken' = spoken
                    /\ last' = Last("on_warning", "None", "none")
    /\ UNCHANGED <<style, current_item_index, item_start_time, meeting_start_time,
                   meeting_overtime, last_intervention_time, last_override_time,
                   silence_requested_until, now, warning_handle, overtime_handle, pc,
                   driver, commands, gate, mixer, notes, call, agent, loop, transcript_buffer, item_transcripts, override_cmd_time, advanced_before_start, warned>>

\* AgendaTimers._on_warning after session.say returns
OnWarningSaid(k) ==
    /\ tasks[k].kind = "warning" /\ tasks[k].pc = "say"
    /\ last_intervention_time' = now
    /\ tasks' = Drop(tasks, k)
    /\ last' = Last("on_warning_said", "None", "none")
    /\ UNCHANGED <<items, style, current_item_index, item_start_time, meeting_start_time,
                   meeting_overtime, last_override_time, silence_requested_until, now,
                   warning_handle, overtime_handle, pc, driver, commands, gate, mixer, notes, call, agent, loop, transcript_buffer, item_transcripts, spoken, override_cmd_time,
                   advanced_before_start, warned>>

\* AgendaTimers._on_overtime up to its first await
OnOvertime(k) ==
    /\ tasks[k].kind = "overtime" /\ tasks[k].pc = "ready"
    /\ IF ~HasCurrent \/ CurState = COMPLETED
       THEN /\ UNCHANGED <<items, meeting_overtime, current_item_index, item_start_time>>
            /\ tasks' = Drop(tasks, k)
            /\ last' = Last("on_overtime", "return", "none")
       ELSE /\ current_item_index < MaxIndex
            /\ items' = AdvItems
            /\ meeting_overtime' = AdvOvertime
            /\ current_item_index' = current_item_index + 1
            /\ item_start_time' = AdvStart
            /\ tasks' = [tasks EXCEPT ![k].pc = "say", ![k].hasNext = AdvHasNext,
                                      ![k].prev = current_item_index]
            /\ last' = Last("on_overtime", IF AdvHasNext THEN "next" ELSE "None",
                            IF AdvHasNext THEN "transition" ELSE "wrap_up")
    /\ advanced_before_start' = (advanced_before_start \/ meeting_start_time = None)
    /\ UNCHANGED <<style, meeting_start_time, last_intervention_time, last_override_time,
                   silence_requested_until, now, warning_handle, overtime_handle, pc,
                   driver, commands, gate, mixer, notes, call, agent, loop, transcript_buffer, item_transcripts, spoken, override_cmd_time, warned>>

\* AgendaTimers._on_overtime after session.say returns, up to the call of
\* _summarize_item; the notes of the completed item are followed by the
\* specification of the meeting notes only
OnOvertimeSaid(k) ==
    /\ tasks[k].kind = "overtime" /\ tasks[k].pc = "say"
    /\ last_intervention_time' = now
    /\ IF tasks[k].hasNext
       THEN /\ warning_handle' = StartWarning(items, current_item_index, style)
            /\ overtime_handle' = StartOvertime(items, current_item_index, style)
            /\ loop' = Restarted(warning_handle', overtime_handle')
       ELSE UNCHANGED <<warning_handle, overtime_handle, loop>>
    /\ tasks' = IF driver = "notes" THEN [tasks EXCEPT ![k].pc = "summarize"]
                ELSE Drop(tasks, k)
    /\ last' = Last("on_overtime_said", "None", "none")
    /\ UNCHANGED <<items, style, current_item_index, item_start_time, meeting_start_time,
                   meeting_overtime, last_override_time, silence_requested_until, now,
                   pc, driver, commands, gate, mixer, notes, call, agent, transcript_buffer, item_transcripts, spoken, override_cmd_time, advanced_before_start, warned>>

\* BeatFacilitatorAgent.llm_node, skip branch: a voice 'skip this' command
LlmSkip(addressed) ==
    /\ driver = "agent"
    /\ commands < MaxCommands
    /\ commands' = commands + 1
    /\ pc # "start"
    /\ ~(is_silenced /\ ~addressed)
    /\ HasCurrent
    /\ current_item_index < MaxIndex
    /\ items' = AdvItems
    /\ meeting_overtime' = AdvOvertime
    /\ current_item_index' = current_item_index + 1
    /\ item_start_time' = AdvStart
    /\ last_intervention_time' = now
    /\ IF AdvHasNext
       THEN /\ warning_handle' = StartWarning(AdvItems, current_item_index + 1, style)
            /\ overtime_handle' = StartOvertime(AdvItems, current_item_index + 1, style)
       ELSE /\ warning_handle' = NoHandle
            /\ overtime_handle' = NoHandle
    /\ loop' = Restarted(warning_handle', overtime_handle')
    /\ last' = Last("llm_skip", IF AdvHasNext THEN "next" ELSE "None", "skip")
    /\ UNCHANGED <<style, meeting_start_time, last_override_time, silence_requested_until,
                   now, tasks, pc, driver, gate, mixer, notes, call, agent, transcript_buffer, item_transcripts, spoken, override_cmd_time, advanced_before_start, warned>>

\* BeatFacilitatorAgent.llm_node, override branch: a voice 'keep going' command
LlmOverride(addressed) ==
    /\ driver \in {"agent", "warn"}
    /\ commands < MaxCommands
    /\ commands' = commands + 1
    /\ pc # "start"
    /\ ~(is_silenced /\ ~addressed)
    /\ overtime_handle' = ExtendOvertime
    /\ loop' = Extended(ExtendOvertime)
    /\ override_cmd_time' = now
    /\ last' = Last("llm_override", "None", "ack")
    /\ UNCHANGED <<msVars, now, warning_handle, tasks, pc, driver, gate, mixer, notes, call, agent, transcript_buffer, item_transcripts, spoken,
                   advanced_before_start, warned>>

\* on_data_received, set_style message
SetStyle(s) ==
    /\ driver \in {"agent", "notes", "warn"}
    /\ commands < MaxCommands
    /\ commands' = commands + 1
    /\ style' = s
    /\ IF s = "chatting"
       THEN /\ warning_handle' = NoHandle
            /\ overtime_handle' = NoHandle
       ELSE /\ warning_handle' = StartWarning(items, current_item_index, s)
            /\ overtime_handle' = StartOvertime(items, current_item_index, s)
    /\ loop' = Restarted(warning_handle', overtime_handle')
    /\ last' = Last("set_style", "None", "none")
    /\ UNCHANGED <<items, current_item_index, item_start_time, meeting_start_time,
                   meeting_overtime, last_intervention_time, last_override_time,
                   silence_requested_until, now, tasks, pc, driver, gate, mixer, notes, call, agent, transcript_buffer, item_transcripts, spoken,
                   override_cmd_time, advanced_before_start, warned>>

\* _handle_chat_mention, skip branch up to its first await: '@beat skip this'
ChatSkip ==
    /\ driver = "agent"
    /\ commands < MaxCommands
    /\ commands' = commands + 1
    /\ HasCurrent
    /\ current_item_index < MaxIndex
    /\ Len(tasks) < MaxTasks
    /\ items' = AdvItems
    /\ meeting_overtime' = AdvOvertime
    /\ current_item_index' = current_item_index + 1
    /\ item_start_time' = AdvStart
    /\ tasks' = Append(tasks, Task("chat_skip", "publish", current_item_index))
    /\ advanced_before_start' = (advanced_before_start \/ meeting_start_time = None)
    /\ last' = Last("chat_skip", IF AdvHasNext THEN "next" ELSE "None", "none")
    /\ UNCHANGED <<style, meeting_start_time, last_intervention_time, last_override_time,
                   silence_requested_until, now, warning_handle, overtime_handle, pc,
                   driver, gate, mixer, notes, call, agent, loop, transcript_buffer, item_transcripts, spoken, override_cmd_time, warned>>

\* _handle_chat_mention, skip branch after the agenda state was published
ChatSkipPublished(k) ==
    /\ tasks[k].kind = "chat_skip" /\ tasks[k].pc = "publish"
    /\ last_intervention_time' = now
    /\ tasks' = Drop(tasks, k)
    /\ last' = Last("chat_skip_published", "None", "none")
    /\ UNCHANGED <<items, style, current_item_index, item_start_time, meeting_start_time,
                   meeting_overtime, last_override_time, silence_requested_until, now,
                   warning_handle, overtime_handle, pc, driver, commands, gate, mixer, notes, call, agent, loop, transcript_buffer, item_transcripts, spoken, override_cmd_time,
                   advanced_before_start, warned>>

Next ==
    \/ Tick
    \/ StartMeeting
    \/ CheckTimeState
    \/ AdvanceToNext
    \/ HandleOverride
    \/ EntryTimers
    \/ EntryIntro
    \/ FireWarning
    \/ FireOvertime
    \/ \E k \in 1..Len(tasks) : OnWarning(k)
    \/ \E k \in 1..Len(tasks) : OnWarningSaid(k)
    \/ \E k \in 1..Len(tasks) : OnOvertime(k)
    \/ \E k \in 1..Len(tasks) : OnOvertimeSaid(k)
    \/ \E addressed \in BOOLEAN : LlmSkip(addressed)
    \/ \E addressed \in BOOLEAN : LlmOverride(addressed)
    \/ \E s \in Styles : SetStyle(s)
    \/ ChatSkip
    \/ \E k \in 1..Len(tasks) : ChatSkipPublished(k)

Spec == Init /\ [][Next]_vars

----------------------------------------------------------------------------
\* The speech gate on its own: evaluate applied to every input of the bounded sets

InitGate ==
    /\ items = <<>>
    /\ style = "moderate"
    /\ current_item_index = 0
    /\ item_start_time = None
    /\ meeting_start_time = None
    /\ meeting_overtime = 0
    /\ last_intervention_time = 0
    /\ last_override_time = 0
    /\ silence_requested_until = 0
    /\ now = T0
    /\ warning_handle = NoHandle
    /\ overtime_handle = NoHandle
    /\ tasks = <<>>
    /\ pc = "gate"
    /\ driver = "gate"
    /\ commands = 0
    /\ \E text \in Texts, trigger \in Triggers, ctx \in Contexts :
          gate = [NoGate EXCEPT !.text = text, !.trigger = trigger, !.ctx = ctx]
    /\ mixer = NoMixer
    /\ notes = NoNotes
    /\ call = NoCall
    /\ agent = NoAgent
    /\ loop = {}
    /\ transcript_buffer = <<>>
    /\ item_transcripts = <<>>
    /\ spoken = {}
    /\ override_cmd_time = None
    /\ advanced_before_start = FALSE
    /\ warned = {}
    /\ last = [op |-> "init", ret |-> "None", spoke |-> "none", idx |-> 0,
               st |-> "none", el |-> 0, ot |-> 0, dur |-> 0]

\* one call of evaluate on the drawn arguments
Evaluate ==
    /\ driver = "gate"
    /\ gate.result.action = "none"
    /\ gate' = [gate EXCEPT !.result = evaluate(gate.text, gate.trigger, gate.ctx, now),
                            !.calls = 1]
    /\ UNCHANGED <<msVars, now, timerVars, pc, driver, commands, mixer, notes, call, agent, loop, transcript_buffer, item_transcripts, spoken, override_cmd_time,
                   advanced_before_start, last, warned>>

NextGate == Evaluate

SpecGate == InitGate /\ [][NextGate]_vars

----------------------------------------------------------------------------
\* The speech gate called again on the same arguments while the clock runs

\* contexts that differ in the fields evaluate compares with the clock
ClockContexts ==
    {ctx \in Contexts : /\ ctx.style = "moderate" /\ ctx.meeting_overtime = 4
                         /\ ctx.recent_transcript = <<>> /\ ctx.tangent_confidence = 70}

InitGateClock ==
    /\ items = <<>>
    /\ style = "moderate"
    /\ current_item_index = 0
    /\ item_start_time = None
    /\ meeting_start_time = None
    /\ meeting_overtime = 0
    /\ last_intervention_time = 0
    /\ last_override_time = 0
    /\ silence_requested_until = 0
    /\ now = T0
    /\ warning_handle = NoHandle
    /\ overtime_handle = NoHandle
    /\ tasks = <<>>
    /\ pc = "gate"
    /\ driver = "gate"
    /\ commands = 0
    /\ \E text \in Texts, trigger \in Triggers, ctx \in ClockContexts :
          gate = [NoGate EXCEPT !.text = text, !.trigger = trigger, !.ctx = ctx]
    /\ mixer = NoMixer
    /\ notes = NoNotes
    /\ call = NoCall
    /\ agent = NoAgent
    /\ loop = {}
    /\ transcript_buffer = <<>>
    /\ item_transcripts = <<>>
    /\ spoken = {}
    /\ override_cmd_time = None
    /\ advanced_before_start = FALSE
    /\ warned = {}
    /\ last = [op |-> "init", ret |-> "None", spoke |-> "none", idx |-> 0,
               st |-> "none", el |-> 0, ot |-> 0, dur |-> 0]

\* a later call of evaluate with the arguments of the first call
EvaluateAgain ==
    /\ driver = "gate"
    /\ gate.result.action # "none"
    /\ gate.calls < MaxCalls
    /\ gate' = [gate EXCEPT !.result = evaluate(gate.text, gate.trigger, gate.ctx, now),
                            !.calls = gate.calls + 1]
    /\ UNCHANGED <<msVars, now, timerVars, pc, driver, commands, mixer, notes, call, agent, loop, transcript_buffer, item_transcripts, spoken, override_cmd_time,
                   advanced_before_start, last, warned>>

\* time.time() moves on between two calls
GateTick ==
    /\ driver = "gate"
    /\ now < T0 + MaxGateTime
    /\ now' = now + 1
    /\ UNCHANGED <<msVars, timerVars, pc, driver, commands, gate, mixer, notes, call, agent, loop, transcript_buffer, item_transcripts, spoken, override_cmd_time,
                   advanced_before_start, last, warned>>

NextGateClock ==
    \/ Evaluate
    \/ EvaluateAgain
    \/ GateTick

SpecGateClock == InitGateClock /\ [][NextGateClock]_vars

----------------------------------------------------------------------------
\* The mixer loop on slots the readers have filled

\* participant identities, numbered in the order the participants were added
Participants == 1..MaxParticipants

SlotFrames == {NoFrame} \cup {[has |-> TRUE, data |-> f] : f \in Frames}

\* the slots of the attached participants 1..n, in the order they were added
Slots(n, fr) == [k \in 1..n |-> Slot(k, fr[k])]

InitMix ==
    /\ items = <<>>
    /\ style = "moderate"
    /\ current_item_index = 0
    /\ item_start_time = None
    /\ meeting_start_time = None
    /\ meeting_overtime = 0
    /\ last_intervention_time = 0
    /\ last_override_time = 0
    /\ silence_requested_until = 0
    /\ now = T0
    /\ warning_handle = NoHandle
    /\ overtime_handle = NoHandle
    /\ tasks = <<>>
    /\ pc = "mixer"
    /\ driver = "mixer"
    /\ commands = 0
    /\ gate = NoGate
    /\ notes = NoNotes
    /\ call = NoCall
    /\ agent = NoAgent
    /\ loop = {}
    /\ transcript_buffer = <<>>
    /\ item_transcripts = <<>>
    /\ spoken = {}
    /\ \E n \in 0..MaxParticipants : \E fr \in [1..n -> SlotFrames] :
          mixer = [NoMixer EXCEPT !.slots = Slots(n, fr), !.running = TRUE,
                                  !.task = "sleeping",
                                  !.readers = [k \in 1..n |-> "reading"],
                                  !.stream_keys = 1..n, !.task_keys = 1..n]
    /\ override_cmd_time = None
    /\ advanced_before_start = FALSE
    /\ warned = {}
    /\ last = [op |-> "init", ret |-> "None", spoke |-> "none", idx |-> 0,
               st |-> "none", el |-> 0, ot |-> 0, dur |-> 0]

\* one round of _mixer_loop after the sleep: _mix_frames, then the put on the queue;
\* an exception other than CancelledError ends the mixer task
MixerTick ==
    /\ driver \in {"mixer", "audio", "queue", "slots", "tracks"}
    /\ mixer.running /\ mixer.task = "sleeping"
    /\ mixer.ticks < (IF driver = "queue" THEN MaxQueueTicks ELSE MaxMixTicks)
    /\ LET frames == TakenFrames(mixer.slots)
           r == _mix_frames(frames)
       IN mixer' = [mixer EXCEPT
                       !.slots = ClearedSlots(mixer.slots),
                       !.queue = IF r.raised = "none" THEN PutDropOldest(@, r.data) ELSE @,
                       !.seqs = IF r.raised = "none"
                                THEN PutDropOldest(@, mixer.ticks + 1) ELSE @,
                       !.consumer = IF r.raised = "none" /\ @ = "blocked"
                                    THEN "woken" ELSE @,
                       !.task = IF r.raised = "none" THEN "sleeping" ELSE "raised",
                       !.ticks = @ + 1,
                       !.taken = frames,
                       !.out = r,
                       !.seen = mixer.sent]
    /\ UNCHANGED <<msVars, now, timerVars, pc, driver, commands, gate, notes, call, agent, loop, transcript_buffer, item_transcripts, spoken, override_cmd_time,
                   advanced_before_start, last, warned>>

NextMix == MixerTick

SpecMix == InitMix /\ [][NextMix]_vars

----------------------------------------------------------------------------
\* The notes of a completed item (agent/main.py, _on_overtime and _summarize_item)

\* how the summarization call ends: a summary, an exception of the client, an
\* answer without tool call, arguments that are no JSON, and arguments that are
\* JSON but hold something else than lists of strings
SummaryOutcomes == {"ok", "exception", "no_tool_call", "bad_json", "wrong_types"}

\* the ItemNotes _summarize_item returns for the completed item
_summarize_item(item, outcome) ==
    [item_id |-> item,
     content |-> IF outcome = "ok" THEN "summary"
                 ELSE IF outcome = "wrong_types" THEN "malformed"
                 ELSE "empty",
     outcome |-> outcome]

\* MeetingState.get_memory_context joins the fields of every record with "; "
\* and raises TypeError on a field that is no list of strings
MemoryContextRaises(meeting_notes) ==
    \E i \in 1..Len(meeting_notes) : meeting_notes[i].content = "malformed"

\* _refresh_agent_instructions up to update_instructions raises when the prompt
\* cannot be built; the chatting prompt is a constant
RefreshRaises(meeting_notes, s) == s # "chatting" /\ MemoryContextRaises(meeting_notes)

InitNotes ==
    /\ \E a \in Agendas : items = [i \in 1..Len(a) |-> AgendaItem(a[i])]
    /\ style \in Styles
    /\ current_item_index = 0
    /\ item_start_time = None
    /\ meeting_start_time = None
    /\ meeting_overtime = 0
    /\ last_intervention_time = 0
    /\ last_override_time = 0
    /\ silence_requested_until = 0
    /\ now = T0
    /\ warning_handle = NoHandle
    /\ overtime_handle = NoHandle
    /\ tasks = <<>>
    /\ pc = "start"
    /\ driver = "notes"
    /\ commands = 0
    /\ gate = NoGate
    /\ mixer = NoMixer
    /\ notes = NoNotes
    /\ call = NoCall
    /\ agent = NoAgent
    /\ loop = {}
    /\ transcript_buffer = <<>>
    /\ item_transcripts = <<>>
    /\ spoken = {}
    /\ override_cmd_time = None
    /\ advanced_before_start = FALSE
    /\ warned = {}
    /\ last = [op |-> "init", ret |-> "None", spoke |-> "none", idx |-> 0,
               st |-> "none", el |-> 0, ot |-> 0, dur |-> 0]

\* _on_overtime after _summarize_item returns: the record is appended and
\* _refresh_agent_instructions builds the prompt
OnOvertimeSummarized(k, outcome) ==
    /\ tasks[k].kind = "overtime" /\ tasks[k].pc = "summarize"
    /\ LET appended == Append(notes.meeting_notes,
                              _summarize_item(tasks[k].prev, outcome))
       IN IF RefreshRaises(appended, style)
          THEN /\ notes' = [notes EXCEPT !.meeting_notes = appended,
                                         !.raised = "TypeError"]
               /\ tasks' = Drop(tasks, k)
          ELSE /\ notes' = [notes EXCEPT !.meeting_notes = appended]
               /\ tasks' = [tasks EXCEPT ![k].pc = "refresh"]
    /\ last' = Last("on_overtime_summarized", "None", "none")
    /\ UNCHANGED <<msVars, now, warning_handle, overtime_handle, pc, driver, commands,
                   gate, mixer, call, agent, loop, transcript_buffer, item_transcripts, spoken, override_cmd_time, advanced_before_start, warned>>

\* _on_overtime after update_instructions returns: _send_agenda_state
OnOvertimePublished(k) ==
    /\ tasks[k].kind = "overtime" /\ tasks[k].pc = "refresh"
    /\ notes' = [notes EXCEPT !.published = @ + 1]
    /\ tasks' = Drop(tasks, k)
    /\ last' = Last("on_overtime_published", "None", "none")
    /\ UNCHANGED <<msVars, now, warning_handle, overtime_handle, pc, driver, commands,
                   gate, mixer, call, agent, loop, transcript_buffer, item_transcripts, spoken, override_cmd_time, advanced_before_start, warned>>

NextNotes ==
    \/ Tick
    \/ StartMeeting
    \/ EntryTimers
    \/ EntryIntro
    \/ FireWarning
    \/ FireOvertime
    \/ \E k \in 1..Len(tasks) : OnWarning(k)
    \/ \E k \in 1..Len(tasks) : OnWarningSaid(k)
    \/ \E k \in 1..Len(tasks) : OnOvertime(k)
    \/ \E k \in 1..Len(tasks) : OnOvertimeSaid(k)
    \/ \E s \in Styles : SetStyle(s)
    \/ \E k \in 1..Len(tasks) : \E outcome \in SummaryOutcomes :
          OnOvertimeSummarized(k, outcome)
    \/ \E k \in 1..Len(tasks) : OnOvertimePublished(k)

SpecNotes == InitNotes /\ [][NextNotes]_vars

----------------------------------------------------------------------------
\* The cooldown checks of MeetingState (agent/monitor.py), on a clock in seconds

\* the styles the room metadata can carry
ToleranceStyles == {"gentle", "moderate", "aggressive", "chatting"}

\* seconds since the last intervention and since the last override
SinceIntervention == {9, 10, 11, 29, 30, 31, 59, 60, 61}
SinceOverride == {119, 120}

NowSeconds == 1000

\* TANGENT_TOLERANCE.get(style, INTERVENTION_COOLDOWN)
TANGENT_TOLERANCE(s) ==
    IF s = "gentle" THEN 60
    ELSE IF s = "moderate" THEN 30
    ELSE INTERVENTION_COOLDOWN

\* is_in_override_grace at time t, on seconds
InOverrideGraceAt(t, override_time) ==
    IF override_time = 0 THEN FALSE ELSE (t - override_time) < OverrideGraceSeconds

\* can_intervene at time t, on seconds
CanInterveneAt(t, intervention_time, override_time) ==
    IF InOverrideGraceAt(t, override_time) THEN FALSE
    ELSE (t - intervention_time) > INTERVENTION_COOLDOWN

\* can_intervene_for_tangent at time t, on seconds
can_intervene_for_tangent(s, t, intervention_time, override_time) ==
    IF s = "chatting" THEN FALSE
    ELSE IF InOverrideGraceAt(t, override_time) THEN FALSE
    ELSE (t - intervention_time) > TANGENT_TOLERANCE(s)

\* a MeetingState whose times are seconds: the bot has spoken and the host may
\* have said 'keep going'
InitTolerance ==
    /\ items = <<>>
    /\ style \in ToleranceStyles
    /\ current_item_index = 0
    /\ item_start_time = None
    /\ meeting_start_time = None
    /\ meeting_overtime = 0
    /\ \E d \in SinceIntervention : last_intervention_time = NowSeconds - d
    /\ \E d \in SinceOverride \cup {NowSeconds} : last_override_time = NowSeconds - d
    /\ silence_requested_until = 0
    /\ now = NowSeconds
    /\ warning_handle = NoHandle
    /\ overtime_handle = NoHandle
    /\ tasks = <<>>
    /\ pc = "query"
    /\ driver = "tolerance"
    /\ commands = 0
    /\ gate = NoGate
    /\ mixer = NoMixer
    /\ notes = NoNotes
    /\ call = NoCall
    /\ agent = NoAgent
    /\ loop = {}
    /\ transcript_buffer = <<>>
    /\ item_transcripts = <<>>
    /\ spoken = {}
    /\ override_cmd_time = None
    /\ advanced_before_start = FALSE
    /\ warned = {}
    /\ last = [op |-> "init", ret |-> "None", spoke |-> "none", idx |-> 0,
               st |-> "none", el |-> 0, ot |-> 0, dur |-> 0]

QueryOnly ==
    UNCHANGED <<msVars, now, timerVars, pc, driver, commands, gate, mixer, notes, agent, loop, transcript_buffer, item_transcripts, spoken,
                override_cmd_time, advanced_before_start, last, warned>>

\* a call of MeetingState.can_intervene
CanIntervene ==
    /\ driver = "tolerance"
    /\ call' = [op |-> "can_intervene",
                result |-> CanInterveneAt(now, last_intervention_time,
                                          last_override_time)]
    /\ QueryOnly

\* a call of MeetingState.can_intervene_for_tangent
CanInterveneForTangent ==
    /\ driver = "tolerance"
    /\ call' = [op |-> "can_intervene_for_tangent",
                result |-> can_intervene_for_tangent(style, now, last_intervention_time,
                                                     last_override_time)]
    /\ QueryOnly

NextTolerance == CanIntervene \/ CanInterveneForTangent

SpecTolerance == InitTolerance /\ [][NextTolerance]_vars

----------------------------------------------------------------------------
\* MeetingState.get_time_status (agent/monitor.py), on whole minutes

\* the values of the argument now: before every time of the state, the time of
\* the clock (the default), and the end of the meeting
StatusTimes == {T0 - 1, now, T0 + MaxTime}

\* variant: the remaining time is not clamped at zero
get_time_statusUnclamped(t) ==
    LET allocated == IF HasCurrent THEN current_item.dur ELSE 0
        elapsed == IF HasCurrent /\ item_start_time # None
                   THEN Max(0, t - item_start_time) ELSE 0
    IN IF meeting_start_time = None
       THEN [meeting_started |-> FALSE,
             total_meeting_minutes |-> 0,
             current_item_elapsed_minutes |-> 0,
             current_item_remaining_minutes |-> 0,
             current_item_allocated_minutes |-> allocated,
             meeting_overtime_minutes |-> 0]
       ELSE [meeting_started |-> TRUE,
             total_meeting_minutes |-> Max(0, t - meeting_start_time),
             current_item_elapsed_minutes |-> elapsed,
             current_item_remaining_minutes |-> allocated - elapsed,
             current_item_allocated_minutes |-> allocated,
             meeting_overtime_minutes |-> meeting_overtime + Max(0, elapsed - allocated)]

\* the minute fields of the dict get_time_status(now = t) returns
get_time_status(t) ==
    LET allocated == IF HasCurrent THEN current_item.dur ELSE 0
        elapsed == IF HasCurrent /\ item_start_time # None
                   THEN Max(0, t - item_start_time) ELSE 0
    IN IF meeting_start_time = None
       THEN [meeting_started |-> FALSE,
             total_meeting_minutes |-> 0,
             current_item_elapsed_minutes |-> 0,
             current_item_remaining_minutes |-> 0,
             current_item_allocated_minutes |-> allocated,
             meeting_overtime_minutes |-> 0]
       ELSE [meeting_started |-> TRUE,
             total_meeting_minutes |-> Max(0, t - meeting_start_time),
             current_item_elapsed_minutes |-> elapsed,
             current_item_remaining_minutes |-> Max(0, allocated - elapsed),
             current_item_allocated_minutes |-> allocated,
             meeting_overtime_minutes |-> meeting_overtime + Max(0, elapsed - allocated)]

InitStatus ==
    /\ \E a \in Agendas : items = [i \in 1..Len(a) |-> AgendaItem(a[i])]
    /\ style = "moderate"
    /\ current_item_index = 0
    /\ item_start_time = None
    /\ meeting_start_time = None
    /\ meeting_overtime = 0
    /\ last_intervention_time = 0
    /\ last_override_time = 0
    /\ silence_requested_until = 0
    /\ now = T0
    /\ warning_handle = NoHandle
    /\ overtime_handle = NoHandle
    /\ tasks = <<>>
    /\ pc = "start"
    /\ driver = "status"
    /\ commands = 0
    /\ gate = NoGate
    /\ mixer = NoMixer
    /\ notes = NoNotes
    /\ call = NoCall
    /\ agent = NoAgent
    /\ loop = {}
    /\ transcript_buffer = <<>>
    /\ item_transcripts = <<>>
    /\ spoken = {}
    /\ override_cmd_time = None
    /\ advanced_before_start = FALSE
    /\ warned = {}
    /\ last = [op |-> "init", ret |-> "None", spoke |-> "none", idx |-> 0,
               st |-> "none", el |-> 0, ot |-> 0, dur |-> 0]

\* a call of get_time_status(now = t)
GetTimeStatus(t) ==
    /\ driver = "status"
    /\ call' = [op |-> "get_time_status", now |-> t, result |-> get_time_status(t)]
    /\ QueryOnly

NextStatus ==
    \/ StartMeeting
    \/ Tick
    \/ AdvanceToNext
    \/ \E t \in StatusTimes : GetTimeStatus(t)

SpecStatus == InitStatus /\ [][NextStatus]_vars

----------------------------------------------------------------------------
\* BeatFacilitatorAgent.llm_node (agent/main.py)

\* the latest user text, by the pattern families it matches
UserText(time, skip, end, override, doc, addressed) ==
    [time |-> time, skip |-> skip, end |-> end, override |-> override, doc |-> doc,
     addressed |-> addressed]

\* texts that match no family, one family, and a time query together with the name
\* of the bot or with a second command
UserTexts ==
    {UserText(FALSE, FALSE, FALSE, FALSE, FALSE, FALSE),
     UserText(FALSE, FALSE, FALSE, FALSE, FALSE, TRUE),
     UserText(TRUE, FALSE, FALSE, FALSE, FALSE, FALSE),
     UserText(TRUE, FALSE, FALSE, FALSE, FALSE, TRUE),
     UserText(TRUE, TRUE, FALSE, FALSE, FALSE, FALSE),
     UserText(TRUE, FALSE, FALSE, TRUE, FALSE, FALSE),
     UserText(FALSE, TRUE, FALSE, FALSE, FALSE, FALSE),
     UserText(FALSE, FALSE, TRUE, FALSE, FALSE, FALSE),
     UserText(FALSE, FALSE, FALSE, TRUE, FALSE, FALSE),
     UserText(FALSE, FALSE, FALSE, FALSE, TRUE, FALSE)}

\* what Agent.default.llm_node does: it yields some chunks and may then raise
LlmRuns == {[chunks |-> [i \in 1..n |-> "llm"], raised |-> r] :
               n \in 0..MaxChunks, r \in BOOLEAN}

\* variant: a time query is answered whatever the flag says
LlmBranchFlagIgnored(text) ==
    IF is_silenced /\ ~text.addressed THEN "silence"
    ELSE IF text.time THEN "time"
    ELSE IF text.skip /\ agent.room /\ HasCurrent THEN "skip"
    ELSE IF text.end THEN "end"
    ELSE IF text.override /\ agent.timers THEN "override"
    ELSE IF text.doc /\ agent.room THEN "doc"
    ELSE "llm"

\* the branch of llm_node a text takes, in the order of the code
LlmBranch(text) ==
    IF is_silenced /\ ~text.addressed THEN "silence"
    ELSE IF text.time /\ agent.deterministic_time_queries_enabled THEN "time"
    ELSE IF text.skip /\ agent.room /\ HasCurrent THEN "skip"
    ELSE IF text.end THEN "end"
    ELSE IF text.override /\ agent.timers THEN "override"
    ELSE IF text.doc /\ agent.room THEN "doc"
    ELSE "llm"

\* the chunks llm_node yields
LlmChunks(text, llm) ==
    LET branch == LlmBranch(text)
    IN IF branch = "silence" THEN <<>>
       ELSE IF branch = "time" THEN <<"status">>
       ELSE IF branch = "skip" THEN <<"skip">>
       ELSE IF branch = "end" THEN <<"end">>
       ELSE IF branch = "override" THEN <<"override">>
       ELSE IF branch = "doc" THEN <<"doc">>
       ELSE IF llm.raised /\ text.addressed THEN Append(llm.chunks, "apology")
       ELSE llm.chunks

\* an agenda of five-minute items, an agent with or without room and timers, and
\* possibly a request for silence two minutes long
InitLlm ==
    /\ \E n \in 0..MaxItems : items = [i \in 1..n |-> AgendaItem(5)]
    /\ style = "moderate"
    /\ current_item_index = 0
    /\ item_start_time = None
    /\ meeting_start_time = None
    /\ meeting_overtime = 0
    /\ last_intervention_time = 0
    /\ last_override_time = 0
    /\ silence_requested_until \in {0, T0 + 2}
    /\ now = T0
    /\ warning_handle = NoHandle
    /\ overtime_handle = NoHandle
    /\ tasks = <<>>
    /\ pc = "start"
    /\ driver = "llm"
    /\ commands = 0
    /\ gate = NoGate
    /\ mixer = NoMixer
    /\ notes = NoNotes
    /\ call = NoCall
    /\ \E flag \in BOOLEAN, wired \in BOOLEAN :
          agent = [deterministic_time_queries_enabled |-> flag, room |-> wired,
                   timers |-> wired]
    /\ loop = {}
    /\ transcript_buffer = <<>>
    /\ item_transcripts = <<>>
    /\ spoken = {}
    /\ override_cmd_time = None
    /\ advanced_before_start = FALSE
    /\ warned = {}
    /\ last = [op |-> "init", ret |-> "None", spoke |-> "none", idx |-> 0,
               st |-> "none", el |-> 0, ot |-> 0, dur |-> 0]

\* one run of llm_node on a text, with what the default LLM node would do
LlmNode(text, llm) ==
    /\ driver = "llm"
    /\ LET branch == LlmBranch(text)
       IN /\ call' = [op |-> "llm_node", text |-> text, llm |-> llm, branch |-> branch,
                      chunks |-> LlmChunks(text, llm), llm_called |-> branch = "llm"]
          /\ IF branch = "skip"
             THEN /\ current_item_index < MaxIndex
                  /\ items' = AdvItems
                  /\ meeting_overtime' = AdvOvertime
                  /\ current_item_index' = current_item_index + 1
                  /\ item_start_time' = AdvStart
                  /\ last_intervention_time' = now
                  /\ IF ~agent.timers
                     THEN UNCHANGED <<warning_handle, overtime_handle, loop>>
                     ELSE IF AdvHasNext
                     THEN /\ warning_handle' =
                                StartWarning(AdvItems, current_item_index + 1, style)
                          /\ overtime_handle' =
                                StartOvertime(AdvItems, current_item_index + 1, style)
                          /\ loop' = Restarted(warning_handle', overtime_handle')
                     ELSE /\ warning_handle' = NoHandle
                          /\ overtime_handle' = NoHandle
                          /\ loop' = Cancelled
                  /\ UNCHANGED override_cmd_time
             ELSE IF branch = "override"
             THEN /\ overtime_handle' = ExtendOvertime
                  /\ loop' = Extended(ExtendOvertime)
                  /\ override_cmd_time' = now
                  /\ UNCHANGED <<items, meeting_overtime, current_item_index,
                                 item_start_time, last_intervention_time,
                                 warning_handle>>
             ELSE UNCHANGED <<items, meeting_overtime, current_item_index,
                              item_start_time, last_intervention_time,
                              warning_handle, overtime_handle, loop, override_cmd_time>>
    /\ last' = Last("llm_node", "None", "none")
    /\ UNCHANGED <<style, meeting_start_time, last_override_time, silence_requested_until,
                   now, tasks, pc, driver, commands, gate, mixer, notes, agent, transcript_buffer, item_transcripts, spoken,
                   advanced_before_start, warned>>

\* the meeting is followed up to the first run of llm_node, then the runs are
NextLlm ==
    \/ call = NoCall /\ StartMeeting
    \/ call = NoCall /\ Tick
    \/ \E text \in UserTexts : \E llm \in LlmRuns : LlmNode(text, llm)

SpecLlm == InitLlm /\ [][NextLlm]_vars

----------------------------------------------------------------------------
\* The mixer between on_attached and on_detached: readers, loop and consumer

\* what the steps of the mixer leave alone
MixerOnly ==
    UNCHANGED <<msVars, now, timerVars, pc, driver, commands, gate, notes, call, agent, loop, transcript_buffer, item_transcripts, spoken, override_cmd_time,
                advanced_before_start, last, warned>>

\* the state after on_attached has picked up the tracks of n participants
Attached(n) ==
    [NoMixer EXCEPT !.slots = [k \in 1..n |-> Slot(k, NoFrame)],
                    !.readers = [k \in 1..n |-> "reading"],
                    !.stream_keys = 1..n, !.task_keys = 1..n,
                    !.running = TRUE, !.task = "sleeping"]

\* the frame of the configured size the stream of a participant delivers: its
\* samples carry the identity, so that the frames of two sources differ
LiveFrame(identity) == [i \in 1..SamplesPerFrame |-> identity]

Identities(slots) == {slots[k].identity : k \in 1..Len(slots)}

InitAudio ==
    /\ items = <<>>
    /\ style = "moderate"
    /\ current_item_index = 0
    /\ item_start_time = None
    /\ meeting_start_time = None
    /\ meeting_overtime = 0
    /\ last_intervention_time = 0
    /\ last_override_time = 0
    /\ silence_requested_until = 0
    /\ now = T0
    /\ warning_handle = NoHandle
    /\ overtime_handle = NoHandle
    /\ tasks = <<>>
    /\ pc = "mixer"
    /\ driver = "audio"
    /\ commands = 0
    /\ gate = NoGate
    /\ notes = NoNotes
    /\ call = NoCall
    /\ agent = NoAgent
    /\ loop = {}
    /\ transcript_buffer = <<>>
    /\ item_transcripts = <<>>
    /\ spoken = {}
    /\ \E n \in 0..MaxParticipants : mixer = Attached(n)
    /\ override_cmd_time = None
    /\ advanced_before_start = FALSE
    /\ warned = {}
    /\ last = [op |-> "init", ret |-> "None", spoke |-> "none", idx |-> 0,
               st |-> "none", el |-> 0, ot |-> 0, dur |-> 0]

\* the slot of a tracked identity
SlotOf(slots, identity) == CHOOSE k \in 1..Len(slots) : slots[k].identity = identity

\* variant: the task and the stream are dropped, the slot is left behind
_remove_participant_streamKeepsSlot(m, identity) ==
    IF identity \notin m.stream_keys THEN m
    ELSE [m EXCEPT !.task_keys = @ \ {identity},
                   !.readers[SlotOf(m.slots, identity)] = "cancelled",
                   !.stream_keys = @ \ {identity},
                   !.detached = @ \cup {identity},
                   !.detached_at = m.ticks]

\* _remove_participant_stream: nothing for an identity without stream, else the task
\* is popped and cancelled, the stream is popped and closed, the slot is popped
_remove_participant_stream(m, identity) ==
    IF identity \notin m.stream_keys THEN m
    ELSE [m EXCEPT !.task_keys = @ \ {identity},
                   !.readers = Drop(@, SlotOf(m.slots, identity)),
                   !.stream_keys = @ \ {identity},
                   !.slots = Drop(@, SlotOf(m.slots, identity)),
                   !.detached = @ \cup {identity},
                   !.detached_at = m.ticks]

\* _on_participant_disconnected for a tracked participant
RemoveParticipant(identity) ==
    /\ driver = "audio"
    /\ mixer.running
    /\ identity \in mixer.stream_keys
    /\ mixer' = _remove_participant_stream(mixer, identity)
    /\ MixerOnly

\* the tracks of a participant an unsubscribe event can be about
Tracks == {"microphone", "camera", "screen_share"}

\* _on_track_unsubscribed: the stream of the participant is removed whatever the
\* kind and the source of the track are.  History: call keeps the event.
OnTrackUnsubscribed(identity, track) ==
    /\ driver = "tracks"
    /\ mixer.running
    /\ mixer' = _remove_participant_stream(mixer, identity)
    /\ call' = [op |-> "track_unsubscribed", identity |-> identity, track |-> track,
                tracked |-> identity \in mixer.stream_keys]
    /\ UNCHANGED <<msVars, now, timerVars, pc, driver, commands, gate, notes, agent,
                   loop, transcript_buffer, item_transcripts, spoken, override_cmd_time,
                   advanced_before_start, last, warned>>

\* one pass of the loop of _forward_participant: the frame read replaces the slot
ReaderFrame(k) ==
    /\ driver \in {"audio", "tracks"}
    /\ k \in 1..Len(mixer.slots)
    /\ mixer.readers[k] = "reading"
    /\ mixer' = [mixer EXCEPT
                    !.slots[k] = Slot(@.identity,
                                      [has |-> TRUE, data |-> LiveFrame(@.identity)])]
    /\ MixerOnly

\* variant: the exception of the stream is not caught and reaches the mixer
ReaderFailsUncaught(k) ==
    /\ driver = "audio"
    /\ k \in 1..Len(mixer.slots)
    /\ mixer.readers[k] = "reading"
    /\ mixer' = [mixer EXCEPT !.readers[k] = "failed", !.faulted = mixer.ticks,
                              !.task = "raised"]
    /\ MixerOnly

\* the stream raises in _forward_participant: the exception is logged, the task ends
ReaderFails(k) ==
    /\ driver = "audio"
    /\ k \in 1..Len(mixer.slots)
    /\ mixer.readers[k] = "reading"
    /\ mixer' = [mixer EXCEPT !.readers[k] = "failed", !.faulted = mixer.ticks]
    /\ MixerOnly

\* the stream of _forward_participant ends: the task ends
ReaderEnds(k) ==
    /\ driver = "audio"
    /\ k \in 1..Len(mixer.slots)
    /\ mixer.readers[k] = "reading"
    /\ mixer' = [mixer EXCEPT !.readers[k] = "ended", !.faulted = mixer.ticks]
    /\ MixerOnly

\* the head of the queue handed to the consumer by get
Delivered(m) ==
    [m EXCEPT !.queue = Tail(@), !.seqs = Tail(@), !.consumer = "idle",
              !.got = [seq |-> Head(m.seqs), running |-> m.running]]

\* a call of __anext__: StopAsyncIteration when not running, else get, which returns
\* the head of the queue at once or waits on an empty queue
ConsumerNext ==
    /\ driver \in {"audio", "queue"}
    /\ mixer.consumer = "idle"
    /\ mixer' = IF ~mixer.running THEN [mixer EXCEPT !.consumer = "done"]
                ELSE IF mixer.queue # <<>> THEN Delivered(mixer)
                ELSE [mixer EXCEPT !.consumer = "blocked"]
    /\ MixerOnly

\* the consumer resumes in get after a put has woken it
ConsumerResume ==
    /\ driver \in {"audio", "queue"}
    /\ mixer.consumer = "woken"
    /\ mixer' = IF mixer.queue # <<>> THEN Delivered(mixer)
                ELSE [mixer EXCEPT !.consumer = "blocked"]
    /\ MixerOnly

\* on_detached: the readers and the mixer task are cancelled, the slots are cleared;
\* the queue and a consumer waiting in get are left as they are
OnDetached ==
    /\ driver = "audio"
    /\ mixer.running
    /\ mixer' = [mixer EXCEPT !.running = FALSE,
                              !.readers = <<>>,
                              !.task_keys = {},
                              !.stream_keys = {},
                              !.slots = <<>>,
                              !.task = IF @ = "sleeping" THEN "cancelled" ELSE @]
    /\ MixerOnly

NextAudio ==
    \/ \E identity \in Participants : RemoveParticipant(identity)
    \/ \E k \in Participants : ReaderFrame(k)
    \/ \E k \in Participants : ReaderFails(k)
    \/ \E k \in Participants : ReaderEnds(k)
    \/ MixerTick
    \/ ConsumerNext
    \/ ConsumerResume
    \/ OnDetached

SpecAudio == InitAudio /\ [][NextAudio]_vars

----------------------------------------------------------------------------
\* The output queue filled by a mixer with no source attached

InitQueue ==
    /\ items = <<>>
    /\ style = "moderate"
    /\ current_item_index = 0
    /\ item_start_time = None
    /\ meeting_start_time = None
    /\ meeting_overtime = 0
    /\ last_intervention_time = 0
    /\ last_override_time = 0
    /\ silence_requested_until = 0
    /\ now = T0
    /\ warning_handle = NoHandle
    /\ overtime_handle = NoHandle
    /\ tasks = <<>>
    /\ pc = "mixer"
    /\ driver = "queue"
    /\ commands = 0
    /\ gate = NoGate
    /\ notes = NoNotes
    /\ call = NoCall
    /\ agent = NoAgent
    /\ loop = {}
    /\ transcript_buffer = <<>>
    /\ item_transcripts = <<>>
    /\ spoken = {}
    /\ mixer = Attached(0)
    /\ override_cmd_time = None
    /\ advanced_before_start = FALSE
    /\ warned = {}
    /\ last = [op |-> "init", ret |-> "None", spoke |-> "none", idx |-> 0,
               st |-> "none", el |-> 0, ot |-> 0, dur |-> 0]

NextQueue == MixerTick \/ ConsumerNext \/ ConsumerResume

SpecQueue == InitQueue /\ [][NextQueue]_vars

----------------------------------------------------------------------------
\* A meeting of five-minute items followed past its scheduled end, with the
\* commands that restart or extend the timers

InitWarn ==
    /\ \E n \in 1..MaxItems : items = [i \in 1..n |-> AgendaItem(5)]
    /\ style = "moderate"
    /\ current_item_index = 0
    /\ item_start_time = None
    /\ meeting_start_time = None
    /\ meeting_overtime = 0
    /\ last_intervention_time = 0
    /\ last_override_time = 0
    /\ silence_requested_until = 0
    /\ now = T0
    /\ warning_handle = NoHandle
    /\ overtime_handle = NoHandle
    /\ tasks = <<>>
    /\ pc = "start"
    /\ driver = "warn"
    /\ commands = 0
    /\ gate = NoGate
    /\ mixer = NoMixer
    /\ notes = NoNotes
    /\ call = NoCall
    /\ agent = NoAgent
    /\ loop = {}
    /\ transcript_buffer = <<>>
    /\ item_transcripts = <<>>
    /\ spoken = {}
    /\ override_cmd_time = None
    /\ advanced_before_start = FALSE
    /\ warned = {}
    /\ last = [op |-> "init", ret |-> "None", spoke |-> "none", idx |-> 0,
               st |-> "none", el |-> 0, ot |-> 0, dur |-> 0]

NextWarn ==
    \/ StartMeeting
    \/ EntryTimers
    \/ EntryIntro
    \/ Tick
    \/ FireWarning
    \/ FireOvertime
    \/ \E k \in 1..Len(tasks) : OnWarning(k)
    \/ \E k \in 1..Len(tasks) : OnWarningSaid(k)
    \/ \E k \in 1..Len(tasks) : OnOvertime(k)
    \/ \E k \in 1..Len(tasks) : OnOvertimeSaid(k)
    \/ \E s \in Styles : SetStyle(s)
    \/ \E addressed \in BOOLEAN : LlmOverride(addressed)

SpecWarn == InitWarn /\ [][NextWarn]_vars

----------------------------------------------------------------------------
\* A meeting that is left to its timers: no command arrives, a timer that is due
\* fires and a task that is ready runs

RunDurations == {5, 10}

InitRun ==
    /\ \E n \in 1..MaxItems : \E a \in [1..n -> RunDurations] :
          items = [i \in 1..n |-> AgendaItem(a[i])]
    /\ style = "moderate"
    /\ current_item_index = 0
    /\ item_start_time = None
    /\ meeting_start_time = None
    /\ meeting_overtime = 0
    /\ last_intervention_time = 0
    /\ last_override_time = 0
    /\ silence_requested_until = 0
    /\ now = T0
    /\ warning_handle = NoHandle
    /\ overtime_handle = NoHandle
    /\ tasks = <<>>
    /\ pc = "start"
    /\ driver = "run"
    /\ commands = 0
    /\ gate = NoGate
    /\ mixer = NoMixer
    /\ notes = NoNotes
    /\ call = NoCall
    /\ agent = NoAgent
    /\ loop = {}
    /\ transcript_buffer = <<>>
    /\ item_transcripts = <<>>
    /\ spoken = {}
    /\ override_cmd_time = None
    /\ advanced_before_start = FALSE
    /\ warned = {}
    /\ last = [op |-> "init", ret |-> "None", spoke |-> "none", idx |-> 0,
               st |-> "none", el |-> 0, ot |-> 0, dur |-> 0]

NextRun ==
    \/ StartMeeting
    \/ EntryTimers
    \/ EntryIntro
    \/ Tick
    \/ FireWarning
    \/ FireOvertime
    \/ \E k \in 1..Len(tasks) : OnWarning(k)
    \/ \E k \in 1..Len(tasks) : OnWarningSaid(k)
    \/ \E k \in 1..Len(tasks) : OnOvertime(k)
    \/ \E k \in 1..Len(tasks) : OnOvertimeSaid(k)

\* the event loop runs whatever is runnable
SpecRun == InitRun /\ [][NextRun]_vars /\ WF_vars(NextRun)

----------------------------------------------------------------------------
\* The transcript stores of MeetingState (agent/monitor.py)

TranscriptWindowSeconds == 120

Entry(speaker, text, timestamp) ==
    [speaker |-> speaker, text |-> text, timestamp |-> timestamp]

\* variant: the rolling buffer is never cut
RollingKeepAll(buffer, t) == buffer

\* the entries of the buffer with timestamp > t - 120
Rolling(buffer, t) ==
    SelectSeq(buffer, LAMBDA e : e.timestamp * SecondsPerMinute
                                    > t * SecondsPerMinute - TranscriptWindowSeconds)

\* item_transcripts.setdefault(idx, []).append(entry)
Filed(transcripts, idx, entry) ==
    [k \in DOMAIN transcripts \cup {idx} |->
        IF k = idx
        THEN Append(IF k \in DOMAIN transcripts THEN transcripts[k] ELSE <<>>, entry)
        ELSE transcripts[k]]

InitTranscript ==
    /\ \E n \in 0..MaxItems : items = [i \in 1..n |-> AgendaItem(5)]
    /\ style = "moderate"
    /\ current_item_index = 0
    /\ item_start_time = None
    /\ meeting_start_time = None
    /\ meeting_overtime = 0
    /\ last_intervention_time = 0
    /\ last_override_time = 0
    /\ silence_requested_until = 0
    /\ now = T0
    /\ warning_handle = NoHandle
    /\ overtime_handle = NoHandle
    /\ tasks = <<>>
    /\ pc = "start"
    /\ driver = "transcript"
    /\ commands = 0
    /\ gate = NoGate
    /\ mixer = NoMixer
    /\ notes = NoNotes
    /\ call = [op |-> "none", log |-> <<>>]
    /\ agent = NoAgent
    /\ loop = {}
    /\ transcript_buffer = <<>>
    /\ item_transcripts = <<>>
    /\ spoken = {}
    /\ override_cmd_time = None
    /\ advanced_before_start = FALSE
    /\ warned = {}
    /\ last = [op |-> "init", ret |-> "None", spoke |-> "none", idx |-> 0,
               st |-> "none", el |-> 0, ot |-> 0, dur |-> 0]

\* MeetingState.add_transcript.  History: call.log keeps every entry added with
\* the index that was current then.
AddTranscript(speaker, text) ==
    /\ driver = "transcript"
    /\ Len(call.log) < MaxEntries
    /\ LET entry == Entry(speaker, text, now)
       IN /\ transcript_buffer' = Rolling(Append(transcript_buffer, entry), now)
          /\ item_transcripts' = Filed(item_transcripts, current_item_index, entry)
          /\ call' = [op |-> "add_transcript",
                      log |-> Append(call.log, [entry |-> entry,
                                                idx |-> current_item_index])]
    /\ UNCHANGED <<msVars, now, timerVars, pc, driver, commands, gate, mixer, notes,
                   agent, loop, spoken, override_cmd_time, advanced_before_start, last,
                   warned>>

NextTranscript ==
    \/ StartMeeting
    \/ Tick
    \/ AdvanceToNext
    \/ AddTranscript("host", "text")

SpecTranscript == InitTranscript /\ [][NextTranscript]_vars

----------------------------------------------------------------------------
\* The mixer and the track events of the room

InitTracks ==
    /\ items = <<>>
    /\ style = "moderate"
    /\ current_item_index = 0
    /\ item_start_time = None
    /\ meeting_start_time = None
    /\ meeting_overtime = 0
    /\ last_intervention_time = 0
    /\ last_override_time = 0
    /\ silence_requested_until = 0
    /\ now = T0
    /\ warning_handle = NoHandle
    /\ overtime_handle = NoHandle
    /\ tasks = <<>>
    /\ pc = "mixer"
    /\ driver = "tracks"
    /\ commands = 0
    /\ gate = NoGate
    /\ notes = NoNotes
    /\ call = NoCall
    /\ agent = NoAgent
    /\ loop = {}
    /\ transcript_buffer = <<>>
    /\ item_transcripts = <<>>
    /\ spoken = {}
    /\ \E n \in 0..MaxParticipants : mixer = Attached(n)
    /\ override_cmd_time = None
    /\ advanced_before_start = FALSE
    /\ warned = {}
    /\ last = [op |-> "init", ret |-> "None", spoke |-> "none", idx |-> 0,
               st |-> "none", el |-> 0, ot |-> 0, dur |-> 0]

NextTracks ==
    \/ \E identity \in Participants : \E track \in Tracks :
          OnTrackUnsubscribed(identity, track)
    \/ \E k \in Participants : ReaderFrame(k)
    \/ MixerTick

SpecTracks == InitTracks /\ [][NextTracks]_vars

----------------------------------------------------------------------------
\* The slots between two rounds of the mixer loop: every frame a stream delivers
\* is told apart from the frames before it

\* the n-th frame of the stream of a participant
NumberedFrame(identity, n) == [i \in 1..SamplesPerFrame |-> 100 * identity + n]

InitSlots ==
    /\ items = <<>>
    /\ style = "moderate"
    /\ current_item_index = 0
    /\ item_start_time = None
    /\ meeting_start_time = None
    /\ meeting_overtime = 0
    /\ last_intervention_time = 0
    /\ last_override_time = 0
    /\ silence_requested_until = 0
    /\ now = T0
    /\ warning_handle = NoHandle
    /\ overtime_handle = NoHandle
    /\ tasks = <<>>
    /\ pc = "mixer"
    /\ driver = "slots"
    /\ commands = 0
    /\ gate = NoGate
    /\ notes = NoNotes
    /\ call = NoCall
    /\ agent = NoAgent
    /\ loop = {}
    /\ transcript_buffer = <<>>
    /\ item_transcripts = <<>>
    /\ spoken = {}
    /\ \E n \in 1..MaxParticipants :
          mixer = [Attached(n) EXCEPT !.sent = [k \in 1..n |-> 0],
                                      !.seen = [k \in 1..n |-> 0]]
    /\ override_cmd_time = None
    /\ advanced_before_start = FALSE
    /\ warned = {}
    /\ last = [op |-> "init", ret |-> "None", spoke |-> "none", idx |-> 0,
               st |-> "none", el |-> 0, ot |-> 0, dur |-> 0]

\* one pass of the loop of _forward_participant on the next frame of the stream
ForwardFrame(k) ==
    /\ driver = "slots"
    /\ k \in 1..Len(mixer.slots)
    /\ mixer.readers[k] = "reading"
    /\ mixer.sent[k] < MaxFrames
    /\ mixer' = [mixer EXCEPT
                    !.slots[k] = Slot(@.identity,
                                      [has |-> TRUE,
                                       data |-> NumberedFrame(@.identity,
                                                              mixer.sent[k] + 1)]),
                    !.sent[k] = @ + 1]
    /\ MixerOnly

NextSlots ==
    \/ \E k \in Participants : ForwardFrame(k)
    \/ MixerTick

SpecSlots == InitSlots /\ [][NextSlots]_vars

----------------------------------------------------------------------------
\* Properties

InProgress == {ACTIVE, WARNING, OVERTIME, EXTENDED}

\* The operations that run advance_to_next
Advancing == {"advance_to_next", "on_overtime", "llm_skip", "chat_skip"}

\* C1: once start_meeting has run on the constructed state, at most one item is
\* ACTIVE, WARNING, OVERTIME or EXTENDED, every item before current_item_index is
\* COMPLETED and every item after it is UPCOMING.
C1_AgendaShape ==
    (meeting_start_time # None /\ ~advanced_before_start) =>
        /\ Cardinality({i \in 1..Len(items) : items[i].state \in InProgress}) <= 1
        /\ \A i \in 1..Len(items) :
              /\ i - 1 < current_item_index => items[i].state = COMPLETED
              /\ i - 1 > current_item_index => items[i].state = UPCOMING

C1_Witness ==
    /\ meeting_start_time # None /\ ~advanced_before_start
    /\ Len(items) = 2 /\ current_item_index = 1
    /\ items[1].state = COMPLETED /\ items[2].state = WARNING
    /\ last.op = "on_warning"

\* C2: an item that is COMPLETED stays COMPLETED in every step.
C2_CompletedIsFinal ==
    [][\A i \in 1..Len(items) :
          items[i].state = COMPLETED => items'[i].state = COMPLETED]_vars

\* C3: check_time_state on a current item with a positive allocation: at 100% and
\* more a state other than OVERTIME, EXTENDED, COMPLETED becomes OVERTIME; otherwise
\* at 80% and more ACTIVE becomes WARNING; otherwise the state is unchanged.
C3_CheckTimeStateRule ==
    (last.op = "check_time_state" /\ last.st # "none" /\ last.dur > 0) =>
        /\ current_item_index = last.idx
        /\ CurState =
              IF last.el >= last.dur /\ last.st \notin {OVERTIME, EXTENDED, COMPLETED}
              THEN OVERTIME
              ELSE IF 5 * last.el >= 4 * last.dur /\ last.st = ACTIVE
                   THEN WARNING
                   ELSE last.st

C3_Witness ==
    /\ last.op = "check_time_state" /\ last.dur > 0
    /\ last.st = ACTIVE /\ CurState = WARNING /\ last.el < last.dur

\* C4: check_time_state returns the new state exactly when the call changed the
\* state; a call that directly follows another one returns nothing and changes
\* nothing; WARNING is reported at most once for an item.
C4_EdgeTriggered ==
    /\ [](last.op = "check_time_state" =>
             /\ current_item_index = last.idx
             /\ last.ret = IF CurState # last.st THEN CurState ELSE "None")
    /\ [][(last.op = "check_time_state" /\ CheckTimeState) =>
             (last'.ret = "None" /\ items' = items)]_vars
    /\ [][(CheckTimeState /\ last'.ret = WARNING) => current_item_index \notin warned]_vars

C4_Witness ==
    /\ last.op = "check_time_state" /\ last.ret = "None" /\ last.st = WARNING
    /\ current_item_index \in warned

\* C5: advance_to_next on a current item with elapsed time e and allocation a records
\* e as actual_elapsed, adds max(0, e - a) to meeting_overtime, completes the item and
\* increments the index; a next item becomes ACTIVE with elapsed time 0 and is
\* returned, otherwise nothing is returned.
C5_AdvanceToNext ==
    (last.op \in Advancing /\ last.st # "none" /\ last.ret # "return") =>
        /\ current_item_index = last.idx + 1
        /\ items[last.idx + 1].actual_elapsed = last.el
        /\ items[last.idx + 1].state = COMPLETED
        /\ meeting_overtime = last.ot + Max(0, last.el - last.dur)
        /\ meeting_overtime >= last.ot
        /\ IF HasCurrent
           THEN /\ CurState = ACTIVE
                /\ item_start_time = now
                /\ elapsed_minutes = 0
                /\ last.ret = "next"
           ELSE last.ret = "None"

C5_Witness ==
    /\ last.op = "advance_to_next" /\ last.st = OVERTIME /\ last.el = last.dur + 1
    /\ last.dur > 0 /\ meeting_overtime >= 1 /\ HasCurrent

\* C6: advance_to_next without a current item returns nothing and leaves every
\* field of MeetingState, current_item_index included, unchanged.
C6_AdvanceNoCurrentIsNoop ==
    [][(AdvanceToNext /\ ~HasCurrent) => (last'.ret = "None" /\ UNCHANGED msVars)]_vars

\* C7: with an allocation <= 0 check_time_state takes the ratio to be 1.0: an item
\* that is not yet OVERTIME or EXTENDED goes to OVERTIME, and OVERTIME is returned,
\* at any elapsed time; every call ends with a state or nothing, never an error.
C7_DegenerateDuration ==
    (last.op = "check_time_state" /\ last.st \notin {"none", COMPLETED}
     /\ last.dur <= 0) =>
        /\ last.ret \in ItemState \cup {"None"}
        /\ IF last.st \in {OVERTIME, EXTENDED}
           THEN CurState = last.st /\ last.ret = "None"
           ELSE CurState = OVERTIME /\ last.ret = OVERTIME

C7_Witness ==
    /\ last.op = "check_time_state" /\ last.dur <= 0 /\ last.el > 0
    /\ last.st = ACTIVE /\ CurState = OVERTIME /\ last.ret = OVERTIME

\* C8: handle_override marks the current item EXTENDED and leaves
\* current_item_index, item_start_time and meeting_start_time alone; on an EXTENDED
\* item check_time_state changes nothing and returns nothing.
C8_OverrideFrame ==
    /\ [][HandleOverride =>
             /\ UNCHANGED <<current_item_index, item_start_time, meeting_start_time>>
             /\ HasCurrent => items'[current_item_index + 1].state = EXTENDED]_vars
    /\ [](last.op = "check_time_state" /\ last.st = EXTENDED =>
             CurState = EXTENDED /\ last.ret = "None")

C8_Witness ==
    /\ last.op = "check_time_state" /\ last.st = EXTENDED /\ CurState = EXTENDED
    /\ last.dur > 0 /\ last.el > last.dur

\* C9: within 120 s of a 'keep going' command no time warning and no automatic
\* transition is spoken and the overtime timer does not advance the agenda.
C9_OverrideSuppresses ==
    override_cmd_time # None =>
        /\ last.spoke \notin {"time_warning", "transition", "wrap_up"}
        /\ ~(last.op = "on_overtime" /\ last.ret # "return")

\* C10: a non-empty candidate under an active silence window is silenced for every
\* trigger other than transition and wrap_up, whatever the rest of the context.
C10_SilenceWins ==
    (gate.result.action # "none" /\ Strip(gate.text) # <<>>
     /\ gate.ctx.silence_until > now /\ gate.trigger \notin {"transition", "wrap_up"}) =>
        gate.result.action = "silent"

C10_Witness ==
    /\ gate.result.action = "silent" /\ gate.result.reason = "silence"
    /\ gate.trigger = "direct_question" /\ gate.ctx.silence_until > now
    /\ gate.ctx.recent_transcript = <<>> /\ Strip(gate.text) # <<>>

----------------------------------------------------------------------------
\* Properties of the speech gate, stated on the arguments and the result of a call

GateDone == gate.result.action # "none"

GateCandidate == Strip(gate.text)

\* the silence rule of evaluate applies to the call
GateSilenced ==
    /\ gate.ctx.silence_until > 0 /\ now < gate.ctx.silence_until
    /\ gate.trigger \notin {"transition", "wrap_up"}

\* strictly more than half of the distinct words of the candidate are in the transcript
MoreThanHalfHeard ==
    LET cw == _tokenize_words(GateCandidate)
        tw == _tokenize_words(gate.ctx.recent_transcript)
    IN 2 * Cardinality(cw \cap tw) > Cardinality(cw)

\* the call gets as far as the rule of its trigger
ReachesRule == GateDone /\ GateCandidate # <<>> /\ ~GateSilenced /\ ~MoreThanHalfHeard

\* C11 as stated: under an active silence window a transition with a non-empty
\* candidate is spoken in every context.
C11_TransitionAlwaysSpoken ==
    (GateDone /\ GateCandidate # <<>> /\ gate.ctx.silence_until > now
     /\ gate.trigger = "transition") =>
        gate.result.action = "speak"

\* C11 amended: under an active silence window a transition with a non-empty
\* candidate is never silenced by the window; it is spoken unless the candidate is
\* redundant or the override grace is active with less than 5 minutes of overtime.
C11_TransitionBypassesSilence ==
    (GateDone /\ GateCandidate # <<>> /\ gate.ctx.silence_until > now
     /\ gate.trigger = "transition") =>
        /\ gate.result.reason # "silence"
        /\ gate.result.action =
              IF MoreThanHalfHeard
                 \/ (gate.ctx.in_override_grace /\ gate.ctx.meeting_overtime < 5)
              THEN "silent" ELSE "speak"

C11_Witness ==
    /\ gate.trigger = "transition" /\ gate.ctx.silence_until > now
    /\ GateCandidate # <<>> /\ ~gate.ctx.in_override_grace
    /\ gate.ctx.meeting_overtime < 5 /\ gate.result.action = "speak"

\* C12: for every trigger a candidate with strictly more than half of its distinct
\* words in the recent transcript is silenced; with half or less the redundancy rule
\* does not fire and the rule of the trigger decides (intro, wrap_up, direct_question
\* and a forced transition are spoken).
C12_RedundancyFirst ==
    (GateDone /\ GateCandidate # <<>>) =>
        /\ MoreThanHalfHeard => gate.result.action = "silent"
        /\ ~MoreThanHalfHeard => gate.result.reason # "redundant"
        /\ (~MoreThanHalfHeard /\ ~GateSilenced) =>
              /\ gate.trigger \in {"intro", "wrap_up", "direct_question"} =>
                    gate.result.action = "speak"
              /\ (gate.trigger = "transition" /\ gate.ctx.meeting_overtime >= 5) =>
                    gate.result.action = "speak"

C12_Witness ==
    /\ gate.trigger = "transition" /\ gate.ctx.meeting_overtime >= 5
    /\ gate.ctx.silence_until = 0 /\ MoreThanHalfHeard
    /\ gate.result.action = "silent" /\ gate.result.reason = "redundant"

\* C13 as stated: intro, wrap_up and direct_question with a non-empty candidate are
\* always spoken, with confidence 1.0 and the candidate as text.
C13_AlwaysSpoken ==
    (GateDone /\ GateCandidate # <<>>
     /\ gate.trigger \in {"intro", "wrap_up", "direct_question"}) =>
        /\ gate.result.action = "speak"
        /\ gate.result.confidence = 100
        /\ gate.result.text_for_tts = GateCandidate

\* C13 amended: intro, wrap_up and direct_question with a non-empty candidate are
\* spoken, with confidence 1.0 and the stripped candidate as text, unless the silence
\* rule (intro, direct_question) or the redundancy rule fires first; then the result
\* is silent.
C13_AlwaysSpokenAtRule ==
    (GateDone /\ GateCandidate # <<>>
     /\ gate.trigger \in {"intro", "wrap_up", "direct_question"}) =>
        IF GateSilenced \/ MoreThanHalfHeard
        THEN gate.result.action = "silent"
        ELSE /\ gate.result.action = "speak"
             /\ gate.result.confidence = 100
             /\ gate.result.text_for_tts = GateCandidate

C13_Witness ==
    /\ gate.trigger = "direct_question" /\ gate.text = <<" ", "a">>
    /\ gate.ctx.in_override_grace /\ gate.result.action = "speak"
    /\ gate.result.confidence = 100 /\ gate.result.text_for_tts = <<"a">>

\* C14: a transition that reaches its rule is spoken when the meeting overtime is 5
\* minutes or more, also under the override grace; below 5 minutes it is silent under
\* the grace and spoken without it.
C14_TransitionRule ==
    (ReachesRule /\ gate.trigger = "transition") =>
        gate.result.action =
            IF gate.ctx.meeting_overtime >= 5 THEN "speak"
            ELSE IF gate.ctx.in_override_grace THEN "silent" ELSE "speak"

C14_Witness ==
    /\ ReachesRule /\ gate.trigger = "transition" /\ gate.ctx.meeting_overtime >= 5
    /\ gate.ctx.in_override_grace /\ gate.result.action = "speak"

\* C15: under the override grace time_warning and tangent_intervention are silent
\* whatever the confidence, style or overtime; without the grace a time_warning that
\* reaches its rule is spoken.
C15_GraceSilences ==
    GateDone =>
        /\ (gate.ctx.in_override_grace
            /\ gate.trigger \in {"time_warning", "tangent_intervention"}) =>
              gate.result.action = "silent"
        /\ (ReachesRule /\ ~gate.ctx.in_override_grace
            /\ gate.trigger = "time_warning") =>
              gate.result.action = "speak"

C15_Witness ==
    /\ ReachesRule /\ gate.ctx.in_override_grace
    /\ gate.trigger = "tangent_intervention" /\ gate.ctx.tangent_confidence = 100
    /\ gate.ctx.style = "aggressive" /\ gate.ctx.meeting_overtime >= 5
    /\ gate.result.action = "silent"

C17_ConfidenceOrComplement ==
    (GateDone /\ gate.trigger = "tangent_intervention") =>
        /\ gate.result.action = "speak" =>
              gate.result.confidence = gate.ctx.tangent_confidence
        /\ gate.result.action = "silent" =>
              gate.result.confidence = 100 - gate.ctx.tangent_confidence

\* C17 amended: for a tangent_intervention that reaches its rule the returned
\* confidence is the input confidence (at most 1.0) when the result is speak, its
\* complement (at most 1.0) when the confidence is below the threshold, and 0.95 when
\* the override grace silences it.
C17_ConfidenceAtRule ==
    (ReachesRule /\ gate.trigger = "tangent_intervention") =>
        LET c == gate.ctx.tangent_confidence
        IN gate.result.confidence =
              IF gate.ctx.in_override_grace THEN 95
              ELSE IF gate.result.action = "speak"
                   THEN (IF c > 100 THEN 100 ELSE c)
                   ELSE (IF c < 0 THEN 100 ELSE 100 - c)

C17_Witness ==
    /\ ReachesRule /\ gate.trigger = "tangent_intervention" /\ ~gate.ctx.in_override_grace
    /\ gate.ctx.style = "aggressive" /\ gate.ctx.tangent_confidence = 59
    /\ gate.result.action = "silent" /\ gate.result.confidence = 41

\* C18: every result has action speak or silent and a confidence within [0,1]; the
\* text is empty when silent and the non-empty stripped candidate when speaking; an
\* empty or whitespace-only candidate and an unrecognized trigger give silent.
C18_GateResultShape ==
    GateDone =>
        /\ gate.result.action \in {"speak", "silent"}
        /\ 0 <= gate.result.confidence /\ gate.result.confidence <= 100
        /\ gate.result.action = "silent" => gate.result.text_for_tts = <<>>
        /\ gate.result.action = "speak" =>
              gate.result.text_for_tts = GateCandidate /\ GateCandidate # <<>>
        /\ GateCandidate = <<>> => gate.result.action = "silent"
        /\ gate.trigger \notin {"intro", "time_warning", "tangent_intervention",
                                "transition", "wrap_up", "direct_question"} =>
              gate.result.action = "silent"

C18_Witness ==
    /\ ReachesRule /\ gate.trigger = "tangent_intervention"
    /\ gate.ctx.tangent_confidence = 105 /\ gate.text = <<"a", " ">>
    /\ gate.result.action = "speak" /\ gate.result.confidence = 100
    /\ gate.result.text_for_tts = <<"a">>

\* C19: a later call of evaluate with the same arguments returns the same result,
\* and a call changes neither the context nor a field of MeetingState.
C19_EvaluateIsPure ==
    [][EvaluateAgain =>
          /\ gate'.result = gate.result
          /\ gate'.ctx = gate.ctx
          /\ UNCHANGED msVars]_vars

----------------------------------------------------------------------------
\* Properties of the mixer

\* sample i of a collected frame, 0 where the frame has no such sample
SampleAt(frame, i) == IF i <= Len(frame) THEN frame[i] ELSE 0

RECURSIVE SumAt(_, _)
SumAt(frames, i) ==
    IF frames = <<>> THEN 0 ELSE SampleAt(Head(frames), i) + SumAt(Tail(frames), i)

Saturated(x) == IF x > 32767 THEN 32767 ELSE IF x < -32768 THEN -32768 ELSE x

\* C20: on a tick that collected two or more frames every output sample is the sum
\* of the input samples saturated to [-32768, 32767], and the tick ends normally.
C20_SaturatedSum ==
    (mixer.ticks > 0 /\ Len(mixer.taken) >= 2) =>
        /\ mixer.task = "sleeping"
        /\ mixer.out.raised = "none"
        /\ Len(mixer.out.data) = SamplesPerFrame
        /\ \A i \in 1..SamplesPerFrame :
              mixer.out.data[i] = Saturated(SumAt(mixer.taken, i))

\* the identities whose slot holds a frame
Buffered(slots) == {k \in 1..Len(slots) : slots[k].frame.has}

\* C21: a round that finds no buffered frame (no source attached included) emits an
\* all-zero frame of the configured number of samples; a round that finds exactly
\* one buffered frame emits that frame unmodified.
C21_SilenceOrSingle ==
    [][MixerTick =>
          LET buffered == Buffered(mixer.slots)
              emitted == mixer'.queue[Len(mixer'.queue)]
          IN /\ buffered = {} =>
                   /\ mixer'.out.raised = "none"
                   /\ Len(mixer'.queue) = Len(mixer.queue) + 1
                   /\ Len(emitted) = SamplesPerFrame
                   /\ \A i \in 1..SamplesPerFrame : emitted[i] = 0
             /\ \A k \in buffered :
                   buffered = {k} =>
                      /\ mixer'.out.raised = "none"
                      /\ Len(mixer'.queue) = Len(mixer.queue) + 1
                      /\ emitted = mixer.slots[k].frame.data]_vars

\* a frame longer than configured went through alone, then a round found nothing
C21_Witness ==
    /\ driver = "mixer" /\ mixer.ticks = 2
    /\ Len(mixer.queue) = 2
    /\ Len(mixer.queue[1]) = SamplesPerFrame + 1
    /\ mixer.queue[2] = _silence_frame

\* C22: while the mixer runs every round puts exactly one frame on the queue and the
\* loop is never ended by an exception.
C22_TickEnqueuesOne ==
    [][MixerTick =>
          /\ mixer'.task = "sleeping"
          /\ mixer'.out.raised = "none"
          /\ Len(mixer'.queue) = Len(mixer.queue) + 1]_vars

\* the queued frames were emitted by consecutive rounds, the oldest first
EmissionOrder(seqs) == \A i \in 1..(Len(seqs) - 1) : seqs[i + 1] = seqs[i] + 1

\* C23: the output queue never holds more than 50 frames; a frame that arrives at a
\* full queue displaces exactly the oldest queued frame and is itself enqueued, so
\* the queue holds the most recently emitted frames in emission order.
C23_BoundedDropOldest ==
    /\ [](/\ Len(mixer.queue) <= QueueMaxSize
          /\ Len(mixer.seqs) = Len(mixer.queue)
          /\ EmissionOrder(mixer.seqs)
          /\ mixer.seqs # <<>> => mixer.seqs[Len(mixer.seqs)] = mixer.ticks)
    /\ [][(MixerTick /\ Len(mixer.queue) = QueueMaxSize) =>
             /\ mixer'.queue = Append(Tail(mixer.queue), mixer'.out.data)
             /\ mixer'.seqs = Append(Tail(mixer.seqs), mixer.ticks + 1)]_vars

\* two frames arrived at a full queue: the frames of rounds 1 and 2 are gone
C23_Witness ==
    /\ driver = "queue" /\ mixer.ticks = QueueMaxSize + 2
    /\ Len(mixer.queue) = QueueMaxSize
    /\ mixer.seqs[1] = 3 /\ mixer.seqs[QueueMaxSize] = QueueMaxSize + 2

\* C24: after on_detached consumption ends: no consumer is left waiting in get on
\* the empty queue, which nothing fills or wakes any more, and no frame is handed
\* to a consumer once the mixer is shut down.
C24_ConsumptionEnds ==
    /\ ~mixer.running => ~(mixer.consumer = "blocked" /\ mixer.queue = <<>>)
    /\ mixer.got.running

\* the slots other than k, with the state of their readers
Others(m, k) ==
    [j \in 1..Len(m.slots) |->
        IF j = k THEN <<>> ELSE <<m.slots[j], m.readers[j]>>]

\* C25: a reader that fails or whose stream ends leaves the mixer loop running and
\* leaves the slots and readers of the other sources and the queue as they are;
\* the rounds after it go on emitting what the other sources delivered.
C25_ReaderFailureIsolated ==
    /\ [][\A k \in Participants :
             (ReaderFails(k) \/ ReaderEnds(k)) =>
                /\ mixer'.task = mixer.task
                /\ mixer'.running = mixer.running
                /\ mixer'.queue = mixer.queue
                /\ mixer'.slots = mixer.slots
                /\ Others(mixer', k) = Others(mixer, k)]_vars
    /\ [][(MixerTick /\ mixer.faulted # None) =>
             /\ mixer'.task = "sleeping"
             /\ \A k \in Buffered(mixer.slots) :
                   Buffered(mixer.slots) = {k} =>
                      mixer'.queue[Len(mixer'.queue)] = mixer.slots[k].frame.data]_vars

\* the reader of the first source failed before any round; the next round emitted
\* the frame of the second source
C25_Witness ==
    /\ driver = "audio" /\ mixer.faulted = 0 /\ mixer.ticks = 1
    /\ mixer.readers = <<"failed", "reading">>
    /\ mixer.task = "sleeping"
    /\ mixer.queue = <<LiveFrame(2)>>

----------------------------------------------------------------------------
\* Properties of the meeting notes

\* C26: when the summarization after an automatic advance fails or returns
\* unusable data, _on_overtime does not raise, the record appended for the
\* completed item is empty, and the timers of the new item stay as scheduled.
C26_SummaryFailureAbsorbed ==
    /\ [](notes.raised = "none")
    /\ [](\A i \in 1..Len(notes.meeting_notes) :
            notes.meeting_notes[i].outcome # "ok" =>
               notes.meeting_notes[i].content = "empty")
    /\ [][\A k \in 1..Len(tasks) : \A outcome \in SummaryOutcomes \ {"ok"} :
             OnOvertimeSummarized(k, outcome) =>
                /\ Len(tasks') = Len(tasks) /\ tasks'[k].pc = "refresh"
                /\ UNCHANGED <<warning_handle, overtime_handle>>]_vars

----------------------------------------------------------------------------
\* Properties of the cooldown checks

\* C27: can_intervene_for_tangent is false in style chatting and during the
\* override grace; otherwise it is true exactly when more than the tolerance of the
\* style has passed since the last intervention: 60 s for gentle, 30 s for
\* moderate, 10 s for aggressive.  can_intervene uses the fixed 30 s.
C27_TangentTolerance ==
    LET since == now - last_intervention_time
        grace == last_override_time # 0 /\ now - last_override_time < 120
        tolerance == IF style = "gentle" THEN 60
                     ELSE IF style = "moderate" THEN 30 ELSE 10
    IN /\ call.op = "can_intervene_for_tangent" =>
             call.result = (style # "chatting" /\ ~grace /\ since > tolerance)
       /\ call.op = "can_intervene" => call.result = (~grace /\ since > 30)

----------------------------------------------------------------------------
\* Properties of get_time_status

\* what C28 says of a started meeting: elapsed, remaining and overtime of the dict
\* returned for now = t, and the overtime advance_to_next would record at the
\* same instant
StatusAfterStart(t, r) ==
    LET allocated == IF HasCurrent THEN current_item.dur ELSE 0
        elapsed == IF HasCurrent THEN Max(0, t - item_start_time) ELSE 0
    IN /\ r.meeting_started
       /\ r.current_item_elapsed_minutes = elapsed
       /\ r.current_item_remaining_minutes = Max(0, allocated - elapsed)
       /\ r.current_item_remaining_minutes >= 0
       /\ r.meeting_overtime_minutes = meeting_overtime + Max(0, elapsed - allocated)
       /\ t = now => r.meeting_overtime_minutes = AdvOvertime

\* C28 as stated: get_time_status changes no state; before the start it returns
\* meeting_started false and 0 in every minute field; after the start it returns
\* the clamped elapsed and remaining minutes and the overtime advance_to_next
\* would record.
C28_TimeStatus ==
    [][\A t \in StatusTimes :
          GetTimeStatus(t) =>
             /\ UNCHANGED <<msVars, now, timerVars>>
             /\ IF meeting_start_time = None
                THEN /\ ~call'.result.meeting_started
                     /\ call'.result.total_meeting_minutes = 0
                     /\ call'.result.current_item_elapsed_minutes = 0
                     /\ call'.result.current_item_remaining_minutes = 0
                     /\ call'.result.current_item_allocated_minutes = 0
                     /\ call'.result.meeting_overtime_minutes = 0
                ELSE StatusAfterStart(t, call'.result)]_vars

\* C28 amended: before the start the allocated minutes are the duration of the
\* current item (0 without one) and the other minute fields are 0.
C28_TimeStatusAllocated ==
    [][\A t \in StatusTimes :
          GetTimeStatus(t) =>
             /\ UNCHANGED <<msVars, now, timerVars>>
             /\ IF meeting_start_time = None
                THEN /\ ~call'.result.meeting_started
                     /\ call'.result.total_meeting_minutes = 0
                     /\ call'.result.current_item_elapsed_minutes = 0
                     /\ call'.result.current_item_remaining_minutes = 0
                     /\ call'.result.current_item_allocated_minutes =
                           (IF HasCurrent THEN current_item.dur ELSE 0)
                     /\ call'.result.meeting_overtime_minutes = 0
                ELSE StatusAfterStart(t, call'.result)]_vars

\* the second item has run a minute over its five minutes after the first one ran
\* over as well
C28_Witness ==
    /\ driver = "status" /\ call.op = "get_time_status" /\ call.now = now
    /\ meeting_overtime > 0
    /\ call.result.current_item_allocated_minutes = 5
    /\ call.result.current_item_elapsed_minutes = 6
    /\ call.result.current_item_remaining_minutes = 0
    /\ call.result.meeting_overtime_minutes = meeting_overtime + 1

----------------------------------------------------------------------------
\* Properties of llm_node

\* the text matches no command pattern
NoPattern(text) == ~(text.time \/ text.skip \/ text.end \/ text.override \/ text.doc)

\* the text is a time query and matches no other command pattern
OnlyTime(text) == text.time /\ ~(text.skip \/ text.end \/ text.override \/ text.doc)

AgendaUnchanged ==
    UNCHANGED <<items, current_item_index, item_start_time, meeting_start_time,
                meeting_overtime, warning_handle, overtime_handle>>

\* C29 as stated: a time query is answered with exactly one status chunk and no
\* LLM call if and only if the flag is enabled; a time query with the flag disabled
\* and a text that matches no command pattern give exactly the chunks of the LLM
\* node; neither path changes the agenda state.
C29_TimeQueryRouting ==
    [][\A text \in UserTexts : \A llm \in LlmRuns :
          LlmNode(text, llm) =>
             /\ text.time =>
                   ((call'.chunks = <<"status">> /\ ~call'.llm_called)
                       <=> agent.deterministic_time_queries_enabled)
             /\ ((text.time /\ ~agent.deterministic_time_queries_enabled)
                    \/ NoPattern(text)) => call'.chunks = llm.chunks
             /\ (text.time \/ NoPattern(text)) => AgendaUnchanged]_vars

\* C29 amended: a text not addressed to the bot during the silence window gives no
\* chunk and no LLM call.  Otherwise a time query is answered with exactly one
\* status chunk and no LLM call if and only if the flag is enabled; a text that
\* matches no command pattern, and a time query that matches no other one while
\* the flag is disabled, give the chunks of the LLM node, followed by one apology
\* when the LLM node raised and the text was addressed to the bot; none of these
\* paths changes the agenda state.
C29_TimeQueryRoutingUnlessSilenced ==
    [][\A text \in UserTexts : \A llm \in LlmRuns :
          LlmNode(text, llm) =>
             IF is_silenced /\ ~text.addressed
             THEN call'.chunks = <<>> /\ ~call'.llm_called /\ AgendaUnchanged
             ELSE /\ text.time =>
                        ((call'.chunks = <<"status">> /\ ~call'.llm_called)
                            <=> agent.deterministic_time_queries_enabled)
                  /\ (text.time /\ agent.deterministic_time_queries_enabled) =>
                        AgendaUnchanged
                  /\ (NoPattern(text)
                         \/ (OnlyTime(text)
                               /\ ~agent.deterministic_time_queries_enabled)) =>
                        /\ call'.llm_called
                        /\ call'.chunks =
                              (IF llm.raised /\ text.addressed
                               THEN Append(llm.chunks, "apology") ELSE llm.chunks)
                        /\ AgendaUnchanged]_vars

\* a time query in a started meeting, answered without the LLM
C29_Witness ==
    /\ driver = "llm" /\ call.op = "llm_node"
    /\ meeting_start_time # None
    /\ call.text.time /\ agent.deterministic_time_queries_enabled
    /\ call.chunks = <<"status">> /\ ~call.llm_called

----------------------------------------------------------------------------
\* Properties of the timers under concurrent commands

\* C30: whatever the interleaving of timer firings with skip, override and style
\* commands, the handler of a warning or overtime timer scheduled for item i
\* applies its effect (WARNING, OVERTIME and the advance, the spoken text) only
\* while item i is the current item.
C30_NoStaleTimerEffect ==
    [][\A k \in 1..Len(tasks) :
          ((OnWarning(k) \/ OnOvertime(k)) /\ last'.ret # "return") =>
             tasks[k].item = current_item_index]_vars

\* a handle that is still to fire for item i
PendingFor(h, i) == h.status = "pending" /\ h.item = i

\* C31: every path that advances the agenda (the overtime timer, the voice skip,
\* the chat skip) leaves no timer of the item it leaves pending, and once the path
\* is through, a next item with a positive duration in a style other than chatting
\* has a pending warning and a pending overtime timer of its own.
C31_AdvanceRestartsTimers ==
    [][/\ (last'.op \in {"on_overtime", "llm_skip", "chat_skip"}
             /\ current_item_index' = current_item_index + 1)
          => /\ ~PendingFor(warning_handle', current_item_index)
             /\ ~PendingFor(overtime_handle', current_item_index)
       /\ (last'.op \in {"on_overtime_said", "llm_skip", "chat_skip_published"}
             /\ current_item_index' < Len(items')
             /\ items'[current_item_index' + 1].state = ACTIVE
             /\ items'[current_item_index' + 1].dur > 0
             /\ item_start_time' = now'
             /\ style' # "chatting")
          => /\ PendingFor(warning_handle', current_item_index')
             /\ PendingFor(overtime_handle', current_item_index')]_vars

\* the timer on the loop is the one a field of AgendaTimers holds
Held(t) ==
    \/ t.kind = "warning" /\ warning_handle.status = "pending"
          /\ Timer("warning", warning_handle) = t
    \/ t.kind = "overtime" /\ overtime_handle.status = "pending"
          /\ Timer("overtime", overtime_handle) = t

NonePending == warning_handle.status # "pending" /\ overtime_handle.status # "pending"

\* C32: at most one warning timer and at most one overtime timer are on the loop,
\* and they are the ones the handles hold, so that a timer that was cancelled or
\* replaced is never run; the timer that runs is the held one; and cancel() on
\* handles that have fired or are unset leaves the loop and the tasks as they are.
C32_OneTimerPerKind ==
    /\ [](/\ Cardinality({t \in loop : t.kind = "warning"}) <= 1
          /\ Cardinality({t \in loop : t.kind = "overtime"}) <= 1
          /\ \A t \in loop : Held(t))
    /\ [][/\ last'.op = "fire_warning"
             => warning_handle.status = "pending" /\ warning_handle'.status = "fired"
          /\ last'.op = "fire_overtime"
             => overtime_handle.status = "pending" /\ overtime_handle'.status = "fired"
          /\ (last'.op = "set_style" /\ style' = "chatting" /\ NonePending)
             => /\ loop' = loop /\ tasks' = tasks
                /\ warning_handle' = NoHandle /\ overtime_handle' = NoHandle]_vars

\* the overtime timer of the first item was due at T0 + 5, was replaced before that
\* and has not run
C32_Witness ==
    /\ driver = "agent" /\ Len(items) > 0 /\ items[1].dur = 5
    /\ current_item_index = 0
    /\ now >= T0 + 5
    /\ overtime_handle.status = "pending" /\ overtime_handle.at > now
    /\ override_cmd_time # None
    /\ tasks = <<>>

\* the frames of the sources that have delivered since the last round: of each the
\* last one delivered, in the order of the slots
LatestSinceLastRound ==
    LET fresh == SelectSeq([k \in 1..Len(mixer.slots) |-> k],
                           LAMBDA k : mixer.sent[k] > mixer.seen[k])
    IN [j \in 1..Len(fresh) |->
           NumberedFrame(mixer.slots[fresh[j]].identity, mixer.sent[fresh[j]])]

\* C33: a round of the mixer takes, of every source that has delivered since the
\* round before, the last frame delivered and nothing else, and leaves every slot
\* empty: a frame goes into one output frame at most.
C33_LatestWinsConsumedOnce ==
    [][mixer'.ticks = mixer.ticks + 1
         => /\ mixer'.taken = LatestSinceLastRound
            /\ \A k \in 1..Len(mixer'.slots) : ~mixer'.slots[k].frame.has]_vars

\* a source delivered twice before a round, and not at all before the next one
C33_Witness ==
    /\ driver = "slots" /\ mixer.ticks = 2
    /\ \E k \in 1..Len(mixer.slots) :
          /\ mixer.sent[k] = 2 /\ mixer.seen[k] = 2
          /\ mixer.taken = <<>>

\* C34: the task map, the stream map and the slot map hold the same identities in
\* every state; removing a source takes it out of all three; and no round of the
\* mixer after the removal collects a frame of that source.
C34_DetachRemovesSource ==
    /\ [](/\ mixer.task_keys = mixer.stream_keys
          /\ mixer.stream_keys = Identities(mixer.slots)
          /\ Len(mixer.readers) = Len(mixer.slots))
    /\ [][/\ \A identity \in mixer'.detached \ mixer.detached :
                /\ identity \notin mixer'.task_keys \cup mixer'.stream_keys
                /\ identity \notin Identities(mixer'.slots)
          /\ mixer'.ticks = mixer.ticks + 1
             => \A identity \in mixer.detached : \A j \in 1..Len(mixer'.taken) :
                   mixer'.taken[j] # LiveFrame(identity)]_vars

\* a round of the mixer after a source was removed has collected a frame of a
\* source that is still attached
C34_Witness ==
    /\ driver = "audio"
    /\ mixer.detached # {} /\ mixer.detached_at # None
    /\ mixer.ticks > mixer.detached_at
    /\ mixer.taken # <<>>

\* C39: an unsubscribe event for a track other than the microphone track of a
\* participant leaves the stream, the reader and the slot of that participant as
\* they are.
C39_OtherTrackUnsubscribed ==
    [][(call' # call /\ call'.op = "track_unsubscribed" /\ call'.track # "microphone")
          => /\ mixer'.slots = mixer.slots
             /\ mixer'.readers = mixer.readers
             /\ mixer'.stream_keys = mixer.stream_keys
             /\ mixer'.task_keys = mixer.task_keys]_vars

\* the entries of the log that were added less than 120 seconds before time t
AddedWithinWindow(log, t) ==
    LET recent == SelectSeq(log, LAMBDA r :
                     (t - r.entry.timestamp) * SecondsPerMinute < TranscriptWindowSeconds)
    IN [j \in 1..Len(recent) |-> recent[j].entry]

\* the entries of the log that were added while item idx was current
AddedUnder(log, idx) ==
    LET mine == SelectSeq(log, LAMBDA r : r.idx = idx)
    IN [j \in 1..Len(mine) |-> mine[j].entry]

IsPrefix(a, b) == Len(a) <= Len(b) /\ SubSeq(b, 1, Len(a)) = a

\* C35: right after add_transcript the rolling buffer holds exactly the entries
\* added less than 120 seconds ago, the per-item log holds every entry ever added
\* under the index that was current when it was added, and no step removes or
\* moves an entry of the per-item log.
C35_RollingAndPerItem ==
    /\ [][Len(call'.log) = Len(call.log) + 1
            => transcript_buffer' = AddedWithinWindow(call'.log, now')]_vars
    /\ [](/\ DOMAIN item_transcripts = {call.log[j].idx : j \in 1..Len(call.log)}
          /\ \A idx \in DOMAIN item_transcripts :
                item_transcripts[idx] = AddedUnder(call.log, idx))
    /\ [][\A idx \in DOMAIN item_transcripts :
             /\ idx \in DOMAIN item_transcripts'
             /\ IsPrefix(item_transcripts[idx], item_transcripts'[idx])]_vars

\* an add has cut an old entry out of the rolling buffer while the per-item log
\* keeps entries under two items
C35_Witness ==
    /\ driver = "transcript" /\ call.op = "add_transcript"
    /\ Len(transcript_buffer) < Len(call.log)
    /\ Cardinality(DOMAIN item_transcripts) >= 2
    /\ transcript_buffer # <<>> /\ transcript_buffer[Len(transcript_buffer)].timestamp = now

\* C36: when _on_overtime advances the agenda, the item it leaves has been current
\* for at least its allocated duration.
C36_NoEarlyAutoAdvance ==
    [][(last'.op = "on_overtime" /\ last'.ret # "return")
          => elapsed_minutes >= current_item.dur]_vars

\* C37: in the chatting style no warning or overtime timer is pending, and no
\* handler of a timer sets a warning, advances the agenda or speaks.
C37_ChattingHasNoTimers ==
    /\ [](style = "chatting" => loop = {} /\ NonePending)
    /\ [][(style = "chatting" /\ last'.op \in {"on_warning", "on_overtime"})
             => last'.ret = "return"]_vars

\* C38: a time warning is not spoken for an item it was spoken for before.
C38_OneWarningPerItem ==
    [][(last'.op = "on_warning" /\ last'.spoke = "time_warning")
          => current_item_index \notin spoken]_vars

AllCompleted == \A i \in 1..Len(items) : items[i].state = COMPLETED

\* C40: left to its timers, a meeting of items with positive durations in a style
\* other than chatting completes its items in agenda order, gives every item that
\* becomes active timers of its own, announces the wrap-up and ends with every
\* item COMPLETED and none current.
C40_AgendaRunsToEnd ==
    /\ [](\A i \in 1..Len(items) :
             /\ i < current_item_index + 1 => items[i].state = COMPLETED
             /\ i > current_item_index + 1 => items[i].state = UPCOMING)
    /\ [][(last'.op = "on_overtime_said" /\ HasCurrent)
             => /\ warning_handle' = [status |-> "pending", item |-> current_item_index,
                                      at |-> now + (current_item.dur * 4) \div 5]
                /\ overtime_handle' = [status |-> "pending", item |-> current_item_index,
                                       at |-> now + current_item.dur]
                /\ loop' = {Timer("warning", warning_handle'),
                            Timer("overtime", overtime_handle')}]_vars
    /\ <>(last.spoke = "wrap_up")
    /\ <>[](AllCompleted /\ ~HasCurrent /\ loop = {} /\ tasks = <<>>)

\* the second item of two has been completed by its own overtime timer
C40_Witness ==
    /\ driver = "run" /\ Len(items) = 2 /\ AllCompleted
    /\ current_item_index = 2
    /\ items[2].actual_elapsed = items[2].dur
    /\ now = T0 + total_scheduled_minutes

====
